---- MODULE Spec2Model ----
(***************************************************************************)
(* AbstractBroadcastConnection (open-collaboration-protocol connection     *)
(* core): one connection, its ready barrier, its request map and timers,   *)
(* its handler registry, the frames its transport delivers and the frames  *)
(* it writes.  Every `await` of the source is a point where other tasks    *)
(* of the event loop may run, so every async method is a small process.    *)
(***************************************************************************)
EXTENDS Integers, Sequences, FiniteSets, TLC

\* ------------------------------------------------------------------ bounds
MaxCalls == 2        \* sendRequest / sendNotification / sendBroadcast calls
MaxInbound == 2      \* frames delivered by transport.read
MaxPeers == 1        \* known public keys (getPublicKeysLength)
MaxDispose == 2      \* executions of dispose()
MaxPeerCalls == 2    \* calls of the peer factory
MaxFolders == 2      \* workspace folders
MaxSegments == 3     \* segments of a URI path
MaxText == 3         \* characters of a text
MaxRemote == 2       \* remote Yjs text events
MaxApplied == 3      \* edits applied to the document

\* ------------------------------------------------------------------ inputs
Calls == 1..MaxCalls
Ids == 1..MaxCalls
Methods == {"m1", "m2"}
Handlers == {"h1", "h2"}
NoHandler == "none"
NoCall == 0
Events == {"onError", "onDisconnect", "onConnectionError"}
Subscribers == {"s1", "s2"}
maxCacheSize == 50
Services ==
    {"CollaborationServer", "RoomManager", "CredentialsManager", "UserManager",
     "MessageRelay"}
PeerInfos == {"peer info a", "peer info b"}

\* Paths are sequences of segments: <<"x", "w">> is /x/w.  A workspace
\* folder is named after the last segment of its path.
undefined == <<>>
Segments == {"w", "x", "f"}
UriPaths == UNION {[1..n -> Segments] : n \in 0..MaxSegments}
Folder(path) == [name |-> path[Len(path)], path |-> path]
Folders == {Folder(<<"w">>), Folder(<<"x">>), Folder(<<"x", "w">>)}
\* Texts are sequences of characters.
Characters == {"a", "b"}
InitialTexts == {<<>>, <<"a">>, <<"a", "b">>}

Workspaces ==
    {ws \in UNION {[1..n -> Folders] : n \in 0..MaxFolders} :
        \A i, j \in DOMAIN ws : i # j => ws[i] # ws[j]}

\* ----------------------------------------------------- Emitter (utils/event)
\* Emitter.event(listener): the subscribers in registration order.
EmitterSubscribe(subs, s) ==
    IF \E i \in DOMAIN subs : subs[i] = s THEN subs ELSE Append(subs, s)

\* Emitter.fire(arg): one delivery per subscriber, in registration order.
EmitterFire(ev, subs, arg) ==
    [i \in DOMAIN subs |-> [ev |-> ev, to |-> subs[i], arg |-> arg]]

\* Emitter.dispose(): clears the subscribers.
EmitterDispose(subs) == <<>>

\* ------------------------------------------------- Encryption (encryption)
\* Encryption.encrypt: every recipient key without a cached wrap gets one.
EncryptCached(cache, keys) == cache \cup keys

\* Encryption.decrypt: the sender's key gets a cached symmetric key.
DecryptCached(cache, sender) == cache \cup {sender}

\* Encryption.generateSymKey(): the key made for this connection.
GenerateSymKey == "key of the connection"

\* A teardown effect that is not a delivery to a listener.
Effect(name) == [ev |-> name, to |-> "", arg |-> ""]

\* -------------------------------------------------- Deferred (utils/promise)
Unsettled == [st |-> "pending", val |-> ""]
NoDeferred == [st |-> "none", val |-> ""]

\* Deferred.resolve: a settled promise keeps its first outcome.
Resolve(d, v) == IF d.st = "pending" THEN [st |-> "resolved", val |-> v] ELSE d

\* Deferred.reject: a settled promise keeps its first outcome.
Reject(d, reason) == IF d.st = "pending" THEN [st |-> "rejected", val |-> reason] ELSE d

\* ------------------------------------------------------------------- state
VARIABLES
    ready,            \* _ready has been resolved
    disposeCalls,     \* how many times dispose() has run
    messageHandlers,  \* method -> handler (NoHandler: no entry)
    requestId,        \* the next id sendRequest hands out
    requestMap,       \* id -> the call whose RelayedRequest is stored
    timers,           \* calls whose setTimeout has not fired yet
    deferred,         \* call -> the Deferred created by that sendRequest
    sends,            \* call -> the position of that async send method
    peerCount,        \* getPublicKeysLength()
    inbound,          \* the handleMessage invocations, in arrival order
    wire,             \* the frames handed to transport.write, in order
    encryptionKeyCache,  \* the recipient keys with a cached wrap
    decryptionKeyCache,  \* the sender keys with a cached symmetric key
    listeners,        \* event -> the subscribers of its emitter, in order
    allocated,        \* history: the ids in the order sendRequest took them
    processed,        \* history: inbound indices in the order dispatched
    timedOut,         \* history: calls rejected by their timer
    registered,       \* history: method -> the last handler registered
    log,              \* history: listener deliveries and teardown effects
    symKey,           \* the symmetric content key of the connection
    singletonCache,   \* container: service -> its cached instance (0: none)
    children,         \* container: the child containers the factory made
    peerImpls,        \* container: the PeerImpl objects the factory returned
    instances,        \* container: how many objects have been constructed
    resolutions,      \* history: the <<service, instance>> pairs resolved
    workspaceFolders, \* editor: vscode.workspace.workspaceFolders
    uri,              \* editor: the path of the URI being mapped
    protocolPath,     \* editor: the protocol path mapped last
    resourceUri,      \* editor: the path of the URI getResourceUri returned
    mapped,           \* editor: which mapping ran last
    host,             \* editor: the instance is the host of the room
    docText,          \* editor: the text of the editor document
    yjsText,          \* editor: the Yjs text of the document's path
    observing,        \* editor: registerTextDocument has run
    updates,          \* editor: the paths in the `updates` set
    edits,            \* editor: the applyEdit calls in flight, in order
    throttle,         \* editor: the state of the path's resync throttle
    remoteEvents,     \* editor: how many remote Yjs events have arrived
    applied           \* history: the edits applied to the document

connectionVars ==
    <<ready, disposeCalls, messageHandlers, requestId, requestMap, timers,
      deferred, sends, peerCount, inbound, wire, encryptionKeyCache,
      decryptionKeyCache, listeners, allocated, processed, timedOut,
      registered, log, symKey>>

serverVars == <<singletonCache, children, peerImpls, instances, resolutions>>

pathVars == <<workspaceFolders, uri, protocolPath, resourceUri, mapped>>

bindingVars ==
    <<host, docText, yjsText, observing, updates, edits, throttle,
      remoteEvents, applied>>

editorVars == <<pathVars, bindingVars>>

\* What the connection's operations leave alone.
outerVars == <<serverVars, editorVars>>

vars == <<connectionVars, outerVars>>

connVars == <<ready, disposeCalls, messageHandlers, registered, peerCount>>
reqVars == <<requestId, requestMap, timers, deferred, allocated, timedOut>>
cacheVars == <<encryptionKeyCache, decryptionKeyCache>>
emitVars == <<listeners, log>>

Disposed == disposeCalls > 0

IdleSend ==
    [kind |-> "none", pc |-> "idle", id |-> 0, early |-> FALSE, keys |-> {}]

\* The connection after construction (field initialisers and the
\* constructor).
InitConnection ==
    /\ ready = FALSE
    /\ disposeCalls = 0
    /\ messageHandlers = [m \in Methods |-> NoHandler]
    /\ requestId = 1
    /\ requestMap = <<>>
    /\ timers = {}
    /\ deferred = [c \in Calls |-> NoDeferred]
    /\ sends = [c \in Calls |-> IdleSend]
    /\ peerCount = 0
    /\ inbound = <<>>
    /\ wire = <<>>
    /\ encryptionKeyCache = {}
    /\ decryptionKeyCache = {}
    /\ listeners = [e \in Events |-> <<>>]
    /\ allocated = <<>>
    /\ processed = <<>>
    /\ timedOut = {}
    /\ registered = [m \in Methods |-> NoHandler]
    /\ log = <<>>
    /\ symKey = GenerateSymKey

\* The container before anything is resolved.
InitServer ==
    /\ singletonCache = [s \in Services |-> 0]
    /\ children = <<>>
    /\ peerImpls = <<>>
    /\ instances = 0
    /\ resolutions = {}

\* Nothing has been mapped.
InitMapping ==
    /\ protocolPath = undefined
    /\ resourceUri = undefined
    /\ mapped = "nothing"

\* No document is registered and no edit is in flight.
InitUnregistered ==
    /\ observing = FALSE
    /\ updates = {}
    /\ edits = <<>>
    /\ throttle = "idle"
    /\ remoteEvents = 0
    /\ applied = <<>>

\* The editor binding of a host in a workspace with the folder /w, for the
\* empty file /w/f.
InitEditor ==
    /\ workspaceFolders = <<Folder(<<"w">>)>>
    /\ uri = <<"w", "f">>
    /\ InitMapping
    /\ host = TRUE
    /\ docText = <<>>
    /\ yjsText = <<>>
    /\ InitUnregistered

Init == InitConnection /\ InitServer /\ InitEditor

\* The same, in any workspace and for any URI within the bounds.
InitPaths ==
    /\ InitConnection
    /\ InitServer
    /\ workspaceFolders \in Workspaces
    /\ uri \in UriPaths
    /\ InitMapping
    /\ host = TRUE
    /\ docText = <<>>
    /\ yjsText = <<>>
    /\ InitUnregistered

\* The same, for a host or a guest and any document text and Yjs text within
\* the bounds.
InitBinding ==
    /\ InitConnection
    /\ InitServer
    /\ workspaceFolders = <<Folder(<<"w">>)>>
    /\ uri = <<"w", "f">>
    /\ InitMapping
    /\ host \in BOOLEAN
    /\ docText \in InitialTexts
    /\ yjsText \in InitialTexts
    /\ InitUnregistered

\* ------------------------------------------------------- owner operations
\* ready(): releases the barrier.
Ready ==
    /\ ~ready
    /\ ready' = TRUE
    /\ UNCHANGED <<outerVars, symKey, disposeCalls, messageHandlers, registered, peerCount, reqVars, sends,
                   inbound, wire, processed,
                   cacheVars, emitVars>>

\* Mutant: a method that has a handler keeps it.
KeepFirstHandler(reg, method, h) ==
    IF reg[method] = NoHandler THEN [reg EXCEPT ![method] = h] ELSE reg

\* The handlers map after onRequest / onNotification / onBroadcast(method, h).
SetHandler(reg, method, h) == [reg EXCEPT ![method] = h]

\* onRequest(type, handler)
OnRequest(method, h) ==
    /\ messageHandlers[method] # h
    /\ messageHandlers' = SetHandler(messageHandlers, method, h)
    /\ registered' = [registered EXCEPT ![method] = h]
    /\ UNCHANGED <<outerVars, symKey, ready, disposeCalls, peerCount, reqVars, sends, inbound,
                   wire, processed,
                   cacheVars, emitVars>>

\* onNotification(type, handler)
OnNotification(method, h) ==
    /\ messageHandlers[method] # h
    /\ messageHandlers' = SetHandler(messageHandlers, method, h)
    /\ registered' = [registered EXCEPT ![method] = h]
    /\ UNCHANGED <<outerVars, symKey, ready, disposeCalls, peerCount, reqVars, sends, inbound,
                   wire, processed,
                   cacheVars, emitVars>>

\* onBroadcast(type, handler)
OnBroadcast(method, h) ==
    /\ messageHandlers[method] # h
    /\ messageHandlers' = SetHandler(messageHandlers, method, h)
    /\ registered' = [registered EXCEPT ![method] = h]
    /\ UNCHANGED <<outerVars, symKey, ready, disposeCalls, peerCount, reqVars, sends, inbound,
                   wire, processed,
                   cacheVars, emitVars>>

\* The subclass's peer set grows or shrinks (getPublicKeys is abstract).
PeerJoin ==
    /\ peerCount < MaxPeers
    /\ peerCount' = peerCount + 1
    /\ UNCHANGED <<outerVars, symKey, ready, disposeCalls, messageHandlers, registered, reqVars, sends,
                   inbound, wire, processed,
                   cacheVars, emitVars>>

PeerLeave ==
    /\ peerCount > 0
    /\ peerCount' = peerCount - 1
    /\ UNCHANGED <<outerVars, symKey, ready, disposeCalls, messageHandlers, registered, reqVars, sends,
                   inbound, wire, processed,
                   cacheVars, emitVars>>

\* The sizes the subclass's peer set takes when it is replaced as a whole.
RoomSizes == {0, 1, maxCacheSize + 1}

\* The subclass replaces its peer set (getPublicKeys and getPublicKeysLength
\* are abstract): the keys 1..n are known afterwards.
RoomChanges(n) ==
    /\ peerCount # n
    /\ peerCount' = n
    /\ UNCHANGED <<outerVars, symKey, ready, disposeCalls, messageHandlers, registered, reqVars,
                   sends, inbound, wire, processed, cacheVars, emitVars>>

\* Mutant: dispose() empties the request map.
DisposeClearsRequestMap(map) == <<>>

\* What dispose() does to the request map: nothing.
DisposeRequestMap(map) == map

\* What dispose() does to the Deferreds of the stored requests: nothing.
DisposeDeferred(defs, map) == defs

\* Mutant: dispose() fires onDisconnect without disposing its emitter.
DisposeKeepsListeners(subs) == subs

\* `this.onDisconnectEmitter.dispose()` and `this.onErrorEmitter.dispose()`
DisposeListeners(subs) == EmitterDispose(subs)

\* `this.messageHandlers.clear()`
ClearHandlers(reg) == [m \in Methods |-> NoHandler]

\* Mutant: dispose() clears the registry before it fires onDisconnect.
DisposeEffectsClearFirst(subs) ==
    [i \in 1..(Len(subs) + 2) |->
        IF i = 1 THEN Effect("handlers.clear")
        ELSE IF i = Len(subs) + 2 THEN Effect("transport.dispose")
        ELSE EmitterFire("onDisconnect", subs, "")[i - 1]]

\* What dispose() delivers and does, in statement order.
DisposeEffects(subs) ==
    EmitterFire("onDisconnect", subs, "")
        \o <<Effect("handlers.clear"), Effect("transport.dispose")>>

\* A callback of the transport that starts a teardown.
Cause(name, message) == [ev |-> name, to |-> "", arg |-> message]

\* The body of dispose(): what it delivers and does, in order, and the state
\* it leaves.
DisposeBody(before) ==
    /\ disposeCalls < MaxDispose
    /\ disposeCalls' = disposeCalls + 1
    /\ log' = log \o before \o DisposeEffects(listeners["onDisconnect"])
    /\ listeners' = [listeners EXCEPT
                        !["onDisconnect"] = DisposeListeners(@),
                        !["onError"] = DisposeListeners(@)]
    /\ messageHandlers' = ClearHandlers(messageHandlers)
    /\ registered' = [m \in Methods |-> NoHandler]
    /\ requestMap' = DisposeRequestMap(requestMap)
    /\ deferred' = DisposeDeferred(deferred, requestMap)
    /\ UNCHANGED <<outerVars, symKey, ready, peerCount, requestId, timers, allocated, timedOut,
                   sends, inbound, wire, processed, cacheVars>>

\* dispose() called by the owner.
Dispose == DisposeBody(<<>>)

\* `transport.onDisconnect(() => this.dispose())`
TransportDisconnect == DisposeBody(<<Cause("transport.onDisconnect", "")>>)

\* `transport.onError(message => {...})`: onConnectionError, then dispose().
TransportError(message) ==
    DisposeBody(<<Cause("transport.onError", message)>>
                \o EmitterFire("onConnectionError",
                               listeners["onConnectionError"], message))

\* onDisconnect(listener), onError(listener), onConnectionError(listener) on
\* a live connection.
Subscribe(ev, s) ==
    /\ ~Disposed
    /\ listeners[ev] # EmitterSubscribe(listeners[ev], s)
    /\ listeners' = [listeners EXCEPT ![ev] = EmitterSubscribe(@, s)]
    /\ UNCHANGED <<outerVars, symKey, connVars, reqVars, cacheVars, sends, inbound, wire,
                   processed, log>>

\* ------------------------------------------------------------------ sends
\* Mutant: replies are encrypted with a key of their own.
ContentKeyOfReplies(key, kind) ==
    IF kind \in {"Response", "ResponseError"} THEN "key of the replies" ELSE key

\* `symmetricKey: this.symKey` of the five calls of Encryption.encrypt.
ContentKey(key, kind) == key

\* A frame as transport.write receives it.  History fields: re is the
\* inbound frame it answers (0 for a send), atReady and atDisposed are the
\* connection's state at the moment of the write.
Frame(kind, id, to, content, re) ==
    [kind |-> kind, id |-> id, to |-> to, content |-> content, re |-> re,
     key |-> ContentKey(symKey, kind),
     atReady |-> ready, atDisposed |-> Disposed]

\* getPublicKey(origin): peer pN holds key N.
KeyOf(origin) == IF origin = "p1" THEN 1 ELSE 2

\* getPublicKey(target): requests and notifications are sent to p1.
TargetKeys == {KeyOf("p1")}

\* getPublicKeys(): the keys of the n known peers.
PublicKeys(n) == 1..n

\* Calls are issued in index order.
NextCall(c) == sends[c].pc = "idle" /\ \A b \in 1..(c - 1) : sends[b].pc # "idle"

\* The part of a send method before `await this._ready.promise`.
IssueSend(c, kind) ==
    /\ NextCall(c)
    /\ sends' = [sends EXCEPT ![c] = [kind |-> kind, pc |-> "awaitReady",
                                      id |-> 0, early |-> ~ready,
                                      keys |-> {}]]
    /\ UNCHANGED <<outerVars, symKey, connVars, reqVars, inbound, wire, processed,
                   cacheVars, emitVars>>

SendRequestCall(c) == IssueSend(c, "request")
SendNotificationCall(c) == IssueSend(c, "notification")
SendBroadcastCall(c) == IssueSend(c, "broadcast")

\* Mutant: the send methods do not wait for the barrier.
SendProceedsUnready(isReady) == TRUE

\* `await this._ready.promise` in the three send methods.
SendMayProceed(isReady) == isReady

\* Mutant: the counter is read but not advanced.
SameRequestId(rid) == rid

\* `this.requestId++`: the value the counter holds afterwards.
NextRequestId(rid) == rid + 1

\* requestMap.set(id, relayedMessage)
MapSet(map, id, c) ==
    [i \in DOMAIN map \cup {id} |-> IF i = id THEN c ELSE map[i]]

\* Mutant: the timeout leaves the entry in the map.
MapKeep(map, id) == map

\* requestMap.delete(id)
MapDelete(map, id) == [i \in DOMAIN map \ {id} |-> map[i]]

\* sendRequest from the barrier to `await Encryption.encrypt`.
SendRequestResume(c) ==
    /\ sends[c].pc = "awaitReady" /\ sends[c].kind = "request"
    /\ SendMayProceed(ready)
    /\ sends' = [sends EXCEPT ![c].pc = "encrypting", ![c].id = requestId,
                              ![c].keys = TargetKeys]
    /\ requestId' = NextRequestId(requestId)
    /\ deferred' = [deferred EXCEPT ![c] = Unsettled]
    /\ timers' = timers \cup {c}
    /\ requestMap' = MapSet(requestMap, requestId, c)
    /\ allocated' = Append(allocated, requestId)
    /\ UNCHANGED <<outerVars, symKey, connVars, timedOut, inbound, wire, processed,
                   cacheVars, emitVars>>

\* sendNotification from the barrier to `await Encryption.encrypt`.
SendNotificationResume(c) ==
    /\ sends[c].pc = "awaitReady" /\ sends[c].kind = "notification"
    /\ SendMayProceed(ready)
    /\ sends' = [sends EXCEPT ![c].pc = "encrypting", ![c].keys = TargetKeys]
    /\ UNCHANGED <<outerVars, symKey, connVars, reqVars, inbound, wire, processed,
                   cacheVars, emitVars>>

\* Mutant: sendBroadcast encrypts and writes whatever the peer set is.
BroadcastAlways(n) == TRUE

\* `if (publicKeys.length > 0)` of sendBroadcast.
BroadcastHasRecipients(n) == n > 0

\* sendBroadcast from the barrier to `await Encryption.encrypt`, or to its
\* end when there is no recipient.
SendBroadcastResume(c) ==
    /\ sends[c].pc = "awaitReady" /\ sends[c].kind = "broadcast"
    /\ SendMayProceed(ready)
    /\ sends' = [sends EXCEPT ![c].pc =
                    IF BroadcastHasRecipients(peerCount) THEN "encrypting"
                    ELSE "skipped",
                              ![c].keys = PublicKeys(peerCount)]
    /\ UNCHANGED <<outerVars, symKey, connVars, reqVars, inbound, wire, processed,
                   cacheVars, emitVars>>

SentKind(kind) ==
    CASE kind = "request" -> "Request"
      [] kind = "notification" -> "Notification"
      [] OTHER -> "Broadcast"

\* Encryption.encrypt resolved: the send method writes the frame and ends.
SendEncrypted(c) ==
    /\ sends[c].pc = "encrypting"
    /\ sends' = [sends EXCEPT ![c].pc = "written"]
    /\ wire' = Append(wire, Frame(SentKind(sends[c].kind), sends[c].id, "", "", 0))
    /\ encryptionKeyCache' = EncryptCached(encryptionKeyCache, sends[c].keys)
    /\ UNCHANGED <<outerVars, symKey, connVars, reqVars, inbound, processed, decryptionKeyCache,
                   emitVars>>

\* Mutant: a sendRequest whose encryption fails runs its dispose closure.
FailedRequestCleansUp(map, id) == [i \in DOMAIN map \ {id} |-> map[i]]

\* What the failure of the encryption does to the request map: nothing, the
\* exception leaves sendRequest without a catch block.
FailedRequestMap(map, id) == map

\* getPublicKey or Encryption.encrypt threw: the send method rejects.
SendEncryptFailed(c) ==
    /\ sends[c].pc = "encrypting"
    /\ sends' = [sends EXCEPT ![c].pc = "failed"]
    /\ requestMap' = FailedRequestMap(requestMap, sends[c].id)
    /\ UNCHANGED <<outerVars, symKey, connVars, requestId, timers, deferred, allocated,
                   timedOut, inbound, wire, processed, cacheVars, emitVars>>

\* Mutant: the timeout rejects the request whatever its state.
SettleTimeoutOverwrites(d) == [st |-> "rejected", val |-> "Request timed out"]

\* `deferred.reject(new Error('Request timed out'))`
SettleTimeout(d) == Reject(d, "Request timed out")

\* The promise sendRequest returned to its caller: the async method's own
\* promise, which follows the Deferred once the method has returned it.
Future(c) ==
    IF sends[c].pc = "failed" THEN [st |-> "rejected", val |-> "encrypt error"]
    ELSE IF sends[c].pc = "written" THEN deferred[c]
    ELSE Unsettled

\* The `dispose` closure of sendRequest, run by setTimeout after 60 s.
TimerFires(c) ==
    /\ c \in timers
    /\ timers' = timers \ {c}
    /\ requestMap' = MapDelete(requestMap, sends[c].id)
    /\ deferred' = [deferred EXCEPT ![c] = SettleTimeout(@)]
    /\ timedOut' = IF deferred[c].st = "pending" THEN timedOut \cup {c} ELSE timedOut
    /\ UNCHANGED <<outerVars, symKey, connVars, requestId, allocated, sends, inbound, wire, processed,
                   cacheVars, emitVars>>

\* ---------------------------------------------------------------- inbound
\* The frames the transport may deliver (Encoding.decode of the bytes).
InFrame(kind, id, method, content, origin) ==
    [kind |-> kind, id |-> id, method |-> method, content |-> content,
     origin |-> origin]

\* The remote peer answers request i with "content i" and fails it with
\* "failure i"; requests with an odd id come from p1, the others from p2.
ContentOf(id) == "content " \o ToString(id)
MessageOf(id) == "failure " \o ToString(id)
PeerOf(id) == IF id % 2 = 1 THEN "p1" ELSE "p2"

ReplyFrames ==
    {InFrame("Response", i, "", ContentOf(i), "p1") : i \in Ids}
    \cup {InFrame("ResponseError", i, "", MessageOf(i), "p1") : i \in Ids}

DispatchFrames ==
    {InFrame("Request", i, "m1", "", PeerOf(i)) : i \in Ids}
    \cup {InFrame("Request", 1, "m2", "", "p1"),
          InFrame("Notification", 0, "m1", "", "p1"),
          InFrame("Broadcast", 0, "m2", "", "p1"),
          InFrame("Error", 0, "", "remote error", "p1")}

\* Notifications of two senders, for the key caches.
CacheFrames ==
    {InFrame("Notification", 0, "m1", "", o) : o \in {"p1", "p2"}}

\* Replies that come from p2, a peer no request was sent to.
ForeignReplyFrames ==
    {InFrame("Response", i, "", "forged " \o ContentOf(i), "p2") : i \in Ids}
    \cup {InFrame("ResponseError", i, "", "forged " \o MessageOf(i), "p2") :
            i \in Ids}

\* Error messages with two different texts.
ErrorFrames ==
    {InFrame("Error", 0, "", t, "p1") : t \in {"remote error", "room closed"}}

InFrames ==
    ReplyFrames \cup DispatchFrames \cup CacheFrames \cup ErrorFrames
    \cup ForeignReplyFrames

IsReply(kind) == kind \in {"Response", "ResponseError"}

\* Mutant: replies are matched to the oldest stored request, not by id.
LookupOldestRequest(map, id) ==
    IF DOMAIN map = {} THEN NoCall
    ELSE map[CHOOSE i \in DOMAIN map : \A j \in DOMAIN map : i <= j]

\* `this.requestMap.get(message.id)`: the call whose entry is stored, if any.
LookupRequest(map, id) == IF id \in DOMAIN map THEN map[id] ELSE NoCall

\* Mutant: a cache that has reached the bound is dropped.
CleanupAtBound(cache, n) ==
    IF Cardinality(cache) >= n + maxCacheSize THEN {} ELSE cache

\* Mutant: only a reply of the peer the requests are sent to finds a request.
ReplyKeyOfTarget(f) == IF f.origin = "p1" THEN f.id ELSE 0

\* `message.id` of `this.requestMap.get(message.id)`: what a reply is looked
\* up by.
ReplyKey(f) == f.id

\* One cache after cleanupCaches with n known public keys.
CleanupCache(cache, n) ==
    IF Cardinality(cache) > n + maxCacheSize THEN {} ELSE cache

\* handleMessage up to its first await: cleanupCaches, decode, the lookup of
\* the request (replies only) and the start of Encryption.decrypt.  History
\* fields: inMap tells that a reply's id was a key of the request map when
\* the frame arrived, late that it is the id of a request that had timed out
\* by then, faults collects the failed encryptions of the reply.
Receive(f) ==
    /\ Len(inbound) < MaxInbound
    /\ ~Disposed
    /\ inbound' = Append(inbound,
          [kind |-> f.kind, id |-> f.id, method |-> f.method,
           content |-> f.content, origin |-> f.origin, pc |-> "decrypt",
           request |-> IF IsReply(f.kind)
                       THEN LookupRequest(requestMap, ReplyKey(f))
                       ELSE NoCall,
           handler |-> NoHandler, outcome |-> "", result |-> "", reply |-> "",
           faults |-> {}, calls |-> 0,
           inMap |-> IsReply(f.kind) /\ f.id \in DOMAIN requestMap,
           late |-> \E c \in timedOut : sends[c].id = f.id])
    /\ encryptionKeyCache' = CleanupCache(encryptionKeyCache, peerCount)
    /\ decryptionKeyCache' = CleanupCache(decryptionKeyCache, peerCount)
    /\ UNCHANGED <<outerVars, symKey, connVars, reqVars, sends, wire, processed, emitVars>>

\* Encoding.decode: malformed bytes fail with MalformedFrame.
DecodeFails(data) == data = "malformed"

\* handleMessage for bytes that do not decode: cleanupCaches runs, then
\* Encoding.decode throws, so the promise handleMessage returned is rejected;
\* the read callback does not look at that promise.
ReceiveMalformed ==
    /\ Len(inbound) < MaxInbound
    /\ ~Disposed
    /\ DecodeFails("malformed")
    /\ inbound' = Append(inbound,
          [kind |-> "Malformed", id |-> 0, method |-> "", content |-> "",
           origin |-> "", pc |-> "done", request |-> NoCall,
           handler |-> NoHandler, outcome |-> "decode error", result |-> "",
           reply |-> "", faults |-> {}, calls |-> 0, inMap |-> FALSE,
           late |-> FALSE])
    /\ encryptionKeyCache' = CleanupCache(encryptionKeyCache, peerCount)
    /\ decryptionKeyCache' = CleanupCache(decryptionKeyCache, peerCount)
    /\ UNCHANGED <<outerVars, symKey, connVars, reqVars, sends, wire, processed, emitVars>>

Decrypting(k, kinds) ==
    /\ k \in DOMAIN inbound
    /\ inbound[k].pc = "decrypt"
    /\ inbound[k].kind \in kinds

\* Mutant: the request is looked up after the decrypt.
FoundRequestAfterDecrypt(m, map) == LookupRequest(map, m.id)

\* `if (request)` after the decrypt: the request found before the decrypt.
FoundRequest(m, map) == m.request

\* `request.response.resolve(decrypted.content)`
SettleResponse(d, content) == Resolve(d, content)

\* Mutant: a ResponseError resolves the request with its message.
SettleResponseErrorAsResult(d, message) == Resolve(d, message)

\* `request.response.reject(new Error(decrypted.content.message))`
SettleResponseError(d, message) == Reject(d, message)

\* Mutant: the catch blocks only log the error.
CryptoErrorOnlyLogged(d) == d

\* `request?.response.reject(err)` of the two catch blocks
SettleCryptoError(d) == Reject(d, "crypto error")

FinishReply(k, outcome, settled) ==
    LET c == FoundRequest(inbound[k], requestMap) IN
    /\ inbound' = [inbound EXCEPT ![k].pc = "done", ![k].outcome = outcome]
    /\ decryptionKeyCache' =
          IF outcome = "ok"
          THEN DecryptCached(decryptionKeyCache, KeyOf(inbound[k].origin))
          ELSE decryptionKeyCache
    /\ deferred' = IF c = NoCall THEN deferred
                   ELSE [deferred EXCEPT ![c] = settled[c]]
    /\ processed' = IF c = NoCall THEN processed ELSE Append(processed, k)
    /\ UNCHANGED <<outerVars, symKey, connVars, requestId, requestMap, timers, allocated, timedOut,
                   sends, wire, encryptionKeyCache, emitVars>>

\* A Response decrypted.
ResponseDecrypted(k) ==
    /\ Decrypting(k, {"Response"})
    /\ FinishReply(k, "ok",
          [c \in Calls |-> SettleResponse(deferred[c], inbound[k].content)])

\* A ResponseError decrypted.
ResponseErrorDecrypted(k) ==
    /\ Decrypting(k, {"ResponseError"})
    /\ FinishReply(k, "ok",
          [c \in Calls |-> SettleResponseError(deferred[c], inbound[k].content)])

\* Encryption.decrypt of a Response or ResponseError threw.
ReplyDecryptFailed(k) ==
    /\ Decrypting(k, {"Response", "ResponseError"})
    /\ FinishReply(k, "fail", [c \in Calls |-> SettleCryptoError(deferred[c])])

\* `this.messageHandlers.get(decrypted.content.method)`
LookupHandler(reg, method) == reg[method]

\* Mutant: a message without a handler is treated like one with a handler.
HandlerNeverMissing(h) == FALSE

\* `if (!handler)`: log and return.
HandlerMissing(h) == h = NoHandler

\* A Request decrypted: without a handler it is dropped, with one the
\* handler is called and awaited.
RequestDecrypted(k) ==
    /\ Decrypting(k, {"Request"})
    /\ LET h == LookupHandler(messageHandlers, inbound[k].method) IN
        /\ inbound' = [inbound EXCEPT
                          ![k].pc = IF HandlerMissing(h) THEN "done" ELSE "handler",
                          ![k].outcome = IF HandlerMissing(h) THEN "dropped" ELSE "",
                          ![k].handler = h,
                          ![k].calls = IF HandlerMissing(h) THEN @ ELSE @ + 1]
        /\ processed' = IF HandlerMissing(h) THEN processed
                         ELSE Append(processed, k)
    /\ decryptionKeyCache' =
          DecryptCached(decryptionKeyCache, KeyOf(inbound[k].origin))
    /\ UNCHANGED <<outerVars, symKey, connVars, reqVars, sends, wire, encryptionKeyCache,
                   emitVars>>

\* Mutant: the handler of a notification is awaited and answered like that
\* of a request.
NotificationAwaited(h) == IF h = NoHandler THEN "done" ELSE "handler"

\* Where handleMessage goes after `handler(message.origin, ...)` of the
\* Notification/Broadcast branch: the call is not awaited, the method ends.
AfterNotification(h) == "done"

\* A Notification or Broadcast decrypted: without a handler it is dropped,
\* with one the handler is called and not awaited; outcome tells how the
\* call ended.
NotificationDispatch(k, outcome) ==
    /\ Decrypting(k, {"Notification", "Broadcast"})
    /\ LET h == LookupHandler(messageHandlers, inbound[k].method) IN
        /\ inbound' = [inbound EXCEPT
                          ![k].pc = AfterNotification(h),
                          ![k].outcome = IF HandlerMissing(h) THEN "dropped"
                                         ELSE outcome,
                          ![k].handler = h,
                          ![k].calls = IF HandlerMissing(h) THEN @ ELSE @ + 1]
        /\ processed' = IF HandlerMissing(h) THEN processed
                         ELSE Append(processed, k)
    /\ decryptionKeyCache' =
          DecryptCached(decryptionKeyCache, KeyOf(inbound[k].origin))
    /\ UNCHANGED <<outerVars, symKey, connVars, reqVars, sends, wire, encryptionKeyCache,
                   emitVars>>

\* The handler of a Notification or Broadcast returned.
NotificationDecrypted(k) == NotificationDispatch(k, "ok")

\* The handler of a Notification or Broadcast threw: the catch block logs.
NotificationHandlerThrew(k) ==
    /\ Decrypting(k, {"Notification", "Broadcast"})
    /\ ~HandlerMissing(LookupHandler(messageHandlers, inbound[k].method))
    /\ NotificationDispatch(k, "threw")

\* Mutant: the text of an Error message is delivered twice.
FireOnErrorTwice(subs, message) ==
    EmitterFire("onError", subs, message) \o EmitterFire("onError", subs, message)

\* `this.onErrorEmitter.fire(decrypted.content.message)`
FireOnError(subs, message) == EmitterFire("onError", subs, message)

\* An Error message decrypted: onErrorEmitter.fire.
ErrorDecrypted(k) ==
    /\ Decrypting(k, {"Error"})
    /\ inbound' = [inbound EXCEPT ![k].pc = "done", ![k].outcome = "ok"]
    /\ processed' = Append(processed, k)
    /\ decryptionKeyCache' =
          DecryptCached(decryptionKeyCache, KeyOf(inbound[k].origin))
    /\ log' = log \o FireOnError(listeners["onError"], inbound[k].content)
    /\ UNCHANGED <<outerVars, symKey, connVars, reqVars, sends, wire, encryptionKeyCache,
                   listeners>>

\* Mutant: a Request that fails to decrypt is answered with a ResponseError.
DecryptErrorAnswered(kind) == IF kind = "Request" THEN "encryptError" ELSE "done"

\* Where handleMessage goes from the catch block of a failed decrypt: it logs
\* the error and ends.
AfterDecryptError(kind) == "done"

\* Encryption.decrypt of a Request, Notification, Broadcast or Error threw.
DecryptFailed(k) ==
    /\ Decrypting(k, {"Request", "Notification", "Broadcast", "Error"})
    /\ inbound' = [inbound EXCEPT ![k].pc = AfterDecryptError(inbound[k].kind),
                                  ![k].outcome = "fail"]
    /\ UNCHANGED <<outerVars, symKey, connVars, reqVars, sends, wire, processed,
                   cacheVars, emitVars>>

\* What handler h returns when it returns.
ResultOf(h) == IF h = "h1" THEN "r1" ELSE "r2"

\* `await handler(...)` returned: the reply waits for the barrier.
HandlerReturned(k) ==
    /\ k \in DOMAIN inbound
    /\ inbound[k].pc = "handler"
    /\ inbound' = [inbound EXCEPT ![k].pc = "awaitReady",
                                  ![k].outcome = "returned",
                                  ![k].result = ResultOf(inbound[k].handler)]
    /\ UNCHANGED <<outerVars, symKey, connVars, reqVars, sends, wire, processed,
                   cacheVars, emitVars>>

\* `await handler(...)` threw: control is in the catch block, which builds
\* the ResponseError and starts its encryption.
HandlerThrew(k) ==
    /\ k \in DOMAIN inbound
    /\ inbound[k].pc = "handler"
    /\ inbound' = [inbound EXCEPT ![k].pc = "encryptError",
                                  ![k].outcome = "threw",
                                  ![k].result = "handler error"]
    /\ UNCHANGED <<outerVars, symKey, connVars, reqVars, sends, wire, processed,
                   cacheVars, emitVars>>

\* Mutant: the Response does not wait for the barrier.
ResponseProceedsUnready(isReady) == TRUE

\* `await this._ready.promise` between the handler and the Response.
ResponseMayProceed(isReady) == isReady

\* The barrier released: the Response is built and its encryption starts.
ReplyResume(k) ==
    /\ k \in DOMAIN inbound
    /\ inbound[k].pc = "awaitReady"
    /\ ResponseMayProceed(ready)
    /\ inbound' = [inbound EXCEPT ![k].pc = "encryptResponse"]
    /\ UNCHANGED <<outerVars, symKey, connVars, reqVars, sends, wire, processed,
                   cacheVars, emitVars>>

\* Mutant: the Response carries no id and no recipient.
ResponseUnaddressed(m, k) == Frame("Response", 0, "", m.result, k)

\* ResponseMessage.create(decrypted.id, result), sealed for the origin.
ResponseFor(m, k) == Frame("Response", m.id, m.origin, m.result, k)

\* ResponseErrorMessage.create(decrypted.id, String(error)), sealed for the
\* origin.
ResponseErrorFor(m, k) == Frame("ResponseError", m.id, m.origin, m.result, k)

\* The Response encrypted and written.
ResponseEncrypted(k) ==
    /\ k \in DOMAIN inbound
    /\ inbound[k].pc = "encryptResponse"
    /\ inbound' = [inbound EXCEPT ![k].pc = "done", ![k].reply = "Response"]
    /\ wire' = Append(wire, ResponseFor(inbound[k], k))
    /\ encryptionKeyCache' =
          EncryptCached(encryptionKeyCache, {KeyOf(inbound[k].origin)})
    /\ UNCHANGED <<outerVars, symKey, connVars, reqVars, sends, processed, decryptionKeyCache,
                   emitVars>>

\* getPublicKey or Encryption.encrypt threw inside the try block: the same
\* catch block as for a handler error answers with a ResponseError.
ResponseEncryptFailed(k) ==
    /\ k \in DOMAIN inbound
    /\ inbound[k].pc = "encryptResponse"
    /\ inbound' = [inbound EXCEPT ![k].pc = "encryptError",
                                  ![k].result = "encrypt error",
                                  ![k].faults = @ \cup {"Response"}]
    /\ UNCHANGED <<outerVars, symKey, connVars, reqVars, sends, wire, processed,
                   cacheVars, emitVars>>

\* The ResponseError encrypted and written.
ResponseErrorEncrypted(k) ==
    /\ k \in DOMAIN inbound
    /\ inbound[k].pc = "encryptError"
    /\ inbound' = [inbound EXCEPT ![k].pc = "done", ![k].reply = "ResponseError"]
    /\ wire' = Append(wire, ResponseErrorFor(inbound[k], k))
    /\ encryptionKeyCache' =
          EncryptCached(encryptionKeyCache, {KeyOf(inbound[k].origin)})
    /\ UNCHANGED <<outerVars, symKey, connVars, reqVars, sends, processed, decryptionKeyCache,
                   emitVars>>

\* getPublicKey or Encryption.encrypt threw inside the catch block: the
\* outer catch logs it and nothing is written.
ResponseErrorEncryptFailed(k) ==
    /\ k \in DOMAIN inbound
    /\ inbound[k].pc = "encryptError"
    /\ inbound' = [inbound EXCEPT ![k].pc = "done",
                                  ![k].faults = @ \cup {"ResponseError"}]
    /\ UNCHANGED <<outerVars, symKey, connVars, reqVars, sends, wire, processed,
                   cacheVars, emitVars>>

\* ------------------------------------------------- container (container.ts)
\* The services bound in singleton scope, in the order of their bindings.
ServiceOrder ==
    <<"CollaborationServer", "RoomManager", "CredentialsManager", "UserManager",
      "MessageRelay">>

\* How many of the first n services have no cached instance yet.
Uncached(cache, n) ==
    Cardinality({i \in 1..n : cache[ServiceOrder[i]] = 0})

\* `inSingletonScope()`: the cached instance if there is one, else the new
\* object, which is cached.
InSingletonScope(cached, fresh) == IF cached = 0 THEN fresh ELSE cached

\* `inTransientScope()`: a new object for every resolution.
InTransientScope(cached, fresh) == fresh

\* container.get(service) on the root container.
ContainerGet(s) ==
    /\ singletonCache' =
          [singletonCache EXCEPT ![s] = InSingletonScope(@, instances + 1)]
    /\ instances' = IF singletonCache[s] = 0 THEN instances + 1 ELSE instances
    /\ resolutions' = resolutions \cup {<<s, singletonCache'[s]>>}
    /\ UNCHANGED <<connectionVars, editorVars, children, peerImpls>>

\* Mutant: PeerInfo is looked up in the first child container ever made.
FirstChildPeerInfo(kids, n) == kids[1].peerInfo

\* `child.get(PeerImpl)` resolving PeerInfo: the constant bound in the child
\* container of this call.
ChildPeerInfo(kids, n) == kids[n].peerInfo

\* The singleton caches after the services PeerImpl depends on are resolved
\* through the parent of the child container.
ResolvedThroughParent(cache, made) ==
    [s \in Services |->
        LET i == CHOOSE j \in DOMAIN ServiceOrder : ServiceOrder[j] = s IN
        InSingletonScope(cache[s], made + Uncached(cache, i))]

\* The peer factory called with peerInfo: a child container whose parent is
\* the root container, PeerInfo bound in it as a constant, and a PeerImpl
\* resolved from it.  History field: arg is the PeerInfo passed to the call.
PeerFactoryCall(peerInfo) ==
    /\ Len(peerImpls) < MaxPeerCalls
    /\ LET n == Len(children) + 1
           kids == Append(children, [parent |-> "root", peerInfo |-> peerInfo])
           deps == ResolvedThroughParent(singletonCache, instances)
           made == instances + Uncached(singletonCache, Len(ServiceOrder))
       IN  /\ children' = kids
           /\ singletonCache' = deps
           /\ instances' = made + 1
           /\ peerImpls' = Append(peerImpls,
                 [instance |-> InTransientScope(0, made + 1),
                  peerInfo |-> ChildPeerInfo(kids, n),
                  deps |-> deps, arg |-> peerInfo])
           /\ resolutions' = resolutions \cup {<<s, deps[s]>> : s \in Services}
    /\ UNCHANGED <<connectionVars, editorVars>>

\* -------------------------------------------- editor binding: path mapping
\* `path.startsWith(root.uri.path + '/')`
StartsWithRoot(path, rootPath) ==
    /\ Len(path) > Len(rootPath)
    /\ SubSeq(path, 1, Len(rootPath)) = rootPath

\* The first element of a non-empty set of indices.
First(indices) == CHOOSE i \in indices : \A j \in indices : i <= j

\* getProtocolPath(uri): the name of the first folder the path lies under,
\* followed by the rest of the path.
getProtocolPath(roots, path) ==
    LET hits == {i \in DOMAIN roots : StartsWithRoot(path, roots[i].path)} IN
    IF path = undefined \/ hits = {} THEN undefined
    ELSE LET root == roots[First(hits)] IN
         <<root.name>> \o SubSeq(path, Len(root.path) + 1, Len(path))

\* getResourceUri(path): the path of the first folder whose name is the
\* first segment, joined with the remaining segments.
getResourceUri(roots, path) ==
    IF path = undefined THEN undefined
    ELSE LET hits == {i \in DOMAIN roots : roots[i].name = path[1]} IN
         IF hits = {} THEN undefined
         ELSE roots[First(hits)].path \o Tail(path)

\* The binding maps the URI of a document to its protocol path.
MapUri ==
    /\ mapped = "nothing"
    /\ protocolPath' = getProtocolPath(workspaceFolders, uri)
    /\ mapped' = "path"
    /\ UNCHANGED <<connectionVars, serverVars, bindingVars, workspaceFolders, uri,
                   resourceUri>>

\* The protocol path comes back, in a file system request, and is mapped to
\* a URI.
MapBack ==
    /\ mapped = "path"
    /\ resourceUri' = getResourceUri(workspaceFolders, protocolPath)
    /\ mapped' = "uri"
    /\ UNCHANGED <<connectionVars, serverVars, bindingVars, workspaceFolders, uri,
                   protocolPath>>

\* A file system request (onStat, onReaddir, onReadFile) names a path of the
\* remote peer's choice.
MapRemotePath(path) ==
    /\ mapped = "nothing"
    /\ path # undefined
    /\ protocolPath' = path
    /\ resourceUri' = getResourceUri(workspaceFolders, path)
    /\ mapped' = "remote"
    /\ UNCHANGED <<connectionVars, serverVars, bindingVars, workspaceFolders, uri>>

\* ------------------------------------------- editor binding: text documents
\* The smaller of two numbers.
Min(a, b) == IF a <= b THEN a ELSE b

\* `ytext.delete(offset, length); ytext.insert(offset, text)`: the characters
\* from offset are removed, as far as the text goes, and text is put there.
\* The editor applies an edit of a range of its document in the same way.
Splice(content, offset, length, text) ==
    LET from == Min(offset, Len(content))
        to == Min(from + length, Len(content))
    IN  SubSeq(content, 1, from) \o text \o SubSeq(content, to + 1, Len(content))

\* The protocol path of the document.
DocumentPath == getProtocolPath(workspaceFolders, uri)

\* The Yjs text after the host's transaction, if the instance is the host.
RegisteredYjsTextOfGuest(isHost, text, ytext) == ytext
RegisteredYjsText(isHost, text, ytext) == IF isHost THEN text ELSE ytext

\* `edit.replace(uri, new vscode.Range(0, 0, document.lineCount, 0), content)`:
\* an edit of the whole document, whatever its length is when it is applied.
WholeEdit(origin, content) ==
    [origin |-> origin, whole |-> TRUE, offset |-> 0, length |-> 0,
     text |-> content, applied |-> FALSE]

\* The edit the observer builds from the delta of a text event: positions are
\* those of the document at the time of the event.
DeltaEdit(index, deleted, inserted) ==
    [origin |-> "observer", whole |-> FALSE,
     offset |-> Min(index, Len(docText)),
     length |-> Min(index + deleted, Len(docText)) - Min(index, Len(docText)),
     text |-> inserted, applied |-> FALSE]

\* The content change of the document-change event of an edit: its
\* rangeOffset, rangeLength and text.
ContentChange(edit, content) ==
    IF edit.whole
    THEN [rangeOffset |-> 0, rangeLength |-> Len(content), text |-> edit.text]
    ELSE [rangeOffset |-> Min(edit.offset, Len(content)),
          rangeLength |-> Min(edit.offset + edit.length, Len(content))
                            - Min(edit.offset, Len(content)),
          text |-> edit.text]

\* `throttle(f, 500)` called: f runs at once when the throttle is idle, and
\* once more after the wait when it is called during the wait.
ThrottleCalled(state) == IF state = "idle" THEN "cooling" ELSE "trailing"

\* The body of the resync: the document is replaced by the Yjs text when the
\* two differ, and the path is in `updates` while the edit is applied.
ResyncEdits(queue) ==
    IF yjsText # docText THEN Append(queue, WholeEdit("resync", yjsText))
    ELSE queue

ResyncUpdates(paths) ==
    IF yjsText # docText THEN paths \cup {DocumentPath} ELSE paths

\* registerTextDocument(document), for a document that is not registered.
RegisterTextDocument ==
    /\ ~observing
    /\ DocumentPath # undefined
    /\ LET ytextContent == RegisteredYjsText(host, docText, yjsText) IN
        /\ yjsText' = ytextContent
        /\ edits' = IF docText # ytextContent
                    THEN Append(edits, WholeEdit("register", ytextContent))
                    ELSE edits
    /\ observing' = TRUE
    /\ UNCHANGED <<connectionVars, serverVars, pathVars, host, docText,
                   updates, throttle, remoteEvents, applied>>

\* A remote peer's change of the Yjs text arrives: `deleted` characters at
\* index are removed and `inserted` is put there.  The observer runs up to
\* its `await`: the mutex is free, and it is released when the observer
\* reaches the `await`.
RemoteTextEvent(index, deleted, inserted) ==
    /\ observing
    /\ remoteEvents < MaxRemote
    /\ index + deleted <= Len(yjsText)
    /\ deleted + Len(inserted) > 0
    /\ Len(yjsText) - deleted + Len(inserted) <= MaxText
    /\ remoteEvents' = remoteEvents + 1
    /\ yjsText' = Splice(yjsText, index, deleted, inserted)
    /\ updates' = updates \cup {DocumentPath}
    /\ edits' = Append(edits, DeltaEdit(index, deleted, inserted))
    /\ UNCHANGED <<connectionVars, serverVars, pathVars, host, docText,
                   observing, throttle, applied>>

\* The editor applies the oldest edit in flight and fires the
\* document-change event; updateTextDocument handles it.  Inside the mutex
\* of updateTextDocument the observer and the body of the throttled resync
\* do not run.  History: `applied` records whether the path was in `updates`
\* and the Yjs text before and after.
ApplyEdit ==
    /\ edits # <<>>
    /\ ~Head(edits).applied
    /\ Len(applied) < MaxApplied
    /\ LET edit == Head(edits)
           change == ContentChange(edit, docText)
           suppressed == DocumentPath \in updates
           ytext == IF suppressed THEN yjsText
                    ELSE Splice(yjsText, change.rangeOffset,
                                change.rangeLength, change.text)
       IN  /\ docText' = Splice(docText, change.rangeOffset,
                                change.rangeLength, change.text)
           /\ yjsText' = ytext
           /\ throttle' = IF suppressed THEN throttle
                          ELSE ThrottleCalled(throttle)
           /\ edits' = IF edit.origin = "register" THEN Tail(edits)
                       ELSE [edits EXCEPT ![1].applied = TRUE]
           /\ applied' = Append(applied,
                 [origin |-> edit.origin, text |-> edit.text,
                  marked |-> suppressed, before |-> yjsText, after |-> ytext])
    /\ UNCHANGED <<connectionVars, serverVars, pathVars, host, observing,
                   updates, remoteEvents>>

\* `await vscode.workspace.applyEdit(edit)` returns in the observer or in the
\* resync: the path leaves `updates`, and the observer calls the throttle.
EditResolved ==
    /\ edits # <<>>
    /\ Head(edits).applied
    /\ LET rest == Tail(edits)
           paths == updates \ {DocumentPath}
           resync == Head(edits).origin = "observer" /\ throttle = "idle"
       IN  /\ updates' = IF resync THEN ResyncUpdates(paths) ELSE paths
           /\ edits' = IF resync THEN ResyncEdits(rest) ELSE rest
           /\ throttle' = IF Head(edits).origin = "observer"
                          THEN ThrottleCalled(throttle) ELSE throttle
    /\ UNCHANGED <<connectionVars, serverVars, pathVars, host, docText,
                   yjsText, observing, remoteEvents, applied>>

\* The wait of the throttle is over: the resync runs if it was called
\* during the wait.
ThrottleTimer ==
    /\ throttle # "idle"
    /\ throttle' = IF throttle = "trailing" THEN "cooling" ELSE "idle"
    /\ updates' = IF throttle = "trailing" THEN ResyncUpdates(updates)
                  ELSE updates
    /\ edits' = IF throttle = "trailing" THEN ResyncEdits(edits) ELSE edits
    /\ UNCHANGED <<connectionVars, serverVars, pathVars, host, docText,
                   yjsText, observing, remoteEvents, applied>>

\* ------------------------------------------------------------ specification
Inbox == 1..MaxInbound

\* The owner's lifecycle calls, shared by every scenario.
Lifecycle ==
    \/ Ready
    \/ Dispose

\* Outbound requests and the replies to them.
RequestSide ==
    \/ \E c \in Calls : SendRequestCall(c)
    \/ \E c \in Calls : SendRequestResume(c)
    \/ \E c \in Calls : SendEncrypted(c)
    \/ \E c \in Calls : TimerFires(c)
    \/ \E f \in ReplyFrames : Receive(f)
    \/ \E k \in Inbox : ResponseDecrypted(k)
    \/ \E k \in Inbox : ResponseErrorDecrypted(k)

\* Crypto failures on the request side.
RequestFaults ==
    \/ \E c \in Calls : SendEncryptFailed(c)
    \/ \E k \in Inbox : ReplyDecryptFailed(k)

\* Inbound requests, notifications, broadcasts and errors.
DispatchSide ==
    \/ \E m \in Methods, h \in Handlers : OnRequest(m, h)
    \/ \E m \in Methods, h \in Handlers : OnNotification(m, h)
    \/ \E m \in Methods, h \in Handlers : OnBroadcast(m, h)
    \/ \E f \in DispatchFrames : Receive(f)
    \/ \E k \in Inbox : RequestDecrypted(k)
    \/ \E k \in Inbox : NotificationDecrypted(k)
    \/ \E k \in Inbox : ErrorDecrypted(k)
    \/ \E k \in Inbox : HandlerReturned(k)
    \/ \E k \in Inbox : HandlerThrew(k)
    \/ \E k \in Inbox : ReplyResume(k)
    \/ \E k \in Inbox : ResponseEncrypted(k)
    \/ \E k \in Inbox : ResponseEncryptFailed(k)
    \/ \E k \in Inbox : ResponseErrorEncrypted(k)
    \/ \E k \in Inbox : ResponseErrorEncryptFailed(k)

\* Decryption failures on the dispatch side, with a listener on onError.
DispatchFaults ==
    \/ \E k \in Inbox : DecryptFailed(k)
    \/ \E k \in Inbox : NotificationHandlerThrew(k)
    \/ Subscribe("onError", "s1")

\* The three send methods behind the barrier.
SendSide ==
    \/ PeerJoin
    \/ PeerLeave
    \/ \E c \in Calls : SendRequestCall(c)
    \/ \E c \in Calls : SendNotificationCall(c)
    \/ \E c \in Calls : SendBroadcastCall(c)
    \/ \E c \in Calls : SendRequestResume(c)
    \/ \E c \in Calls : SendNotificationResume(c)
    \/ \E c \in Calls : SendBroadcastResume(c)
    \/ \E c \in Calls : SendEncrypted(c)
    \/ \E c \in Calls : SendEncryptFailed(c)

\* The sends and receipts that fill and clean the key caches.
CacheSide ==
    \/ \E n \in RoomSizes : RoomChanges(n)
    \/ \E c \in Calls : SendNotificationCall(c)
    \/ \E c \in Calls : SendBroadcastCall(c)
    \/ \E c \in Calls : SendNotificationResume(c)
    \/ \E c \in Calls : SendBroadcastResume(c)
    \/ \E c \in Calls : SendEncrypted(c)
    \/ \E f \in CacheFrames : Receive(f)
    \/ \E k \in Inbox : NotificationDecrypted(k)

\* The ways a connection is torn down, its listeners, and frames that do
\* not decode.
TeardownSide ==
    \/ TransportDisconnect
    \/ TransportError("socket error")
    \/ \E ev \in Events, s \in Subscribers : Subscribe(ev, s)
    \/ \E h \in Handlers : OnRequest("m1", h)
    \/ ReceiveMalformed

\* Error messages arriving at a connection that has listeners on onError, a
\* handler and a request under way.
ErrorSide ==
    \/ \E s \in Subscribers : Subscribe("onError", s)
    \/ \E h \in Handlers : OnRequest("m1", h)
    \/ SendRequestCall(1)
    \/ SendRequestResume(1)
    \/ SendEncrypted(1)
    \/ \E f \in ErrorFrames : Receive(f)
    \/ \E k \in Inbox : ErrorDecrypted(k)

\* Every kind of frame the connection writes: the three sends, and the
\* replies to inbound requests.
WriteSide ==
    \/ PeerJoin
    \/ \E c \in Calls : SendRequestCall(c)
    \/ \E c \in Calls : SendNotificationCall(c)
    \/ \E c \in Calls : SendBroadcastCall(c)
    \/ \E c \in Calls : SendRequestResume(c)
    \/ \E c \in Calls : SendNotificationResume(c)
    \/ \E c \in Calls : SendBroadcastResume(c)
    \/ \E c \in Calls : SendEncrypted(c)
    \/ OnRequest("m1", "h1")
    \/ \E i \in Ids : Receive(InFrame("Request", i, "m1", "", PeerOf(i)))
    \/ \E k \in Inbox : RequestDecrypted(k)
    \/ \E k \in Inbox : HandlerReturned(k)
    \/ \E k \in Inbox : HandlerThrew(k)
    \/ \E k \in Inbox : ReplyResume(k)
    \/ \E k \in Inbox : ResponseEncrypted(k)
    \/ \E k \in Inbox : ResponseErrorEncrypted(k)

\* Requests from their call to their settlement: the barrier, the
\* encryption and its failure, the replies to the first request, the timers.
PendingSide ==
    \/ \E c \in Calls : SendRequestCall(c)
    \/ \E c \in Calls : SendRequestResume(c)
    \/ \E c \in Calls : SendEncrypted(c)
    \/ \E c \in Calls : SendEncryptFailed(c)
    \/ \E c \in Calls : TimerFires(c)
    \/ Receive(InFrame("Response", 1, "", ContentOf(1), "p1"))
    \/ Receive(InFrame("ResponseError", 1, "", MessageOf(1), "p1"))
    \/ \E k \in Inbox : ResponseDecrypted(k)
    \/ \E k \in Inbox : ResponseErrorDecrypted(k)

\* Requests sent to p1 and replies that come from p1 and from p2.
ForeignSide ==
    \/ \E c \in Calls : SendRequestCall(c)
    \/ \E c \in Calls : SendRequestResume(c)
    \/ \E c \in Calls : SendEncrypted(c)
    \/ \E f \in ReplyFrames \cup ForeignReplyFrames : Receive(f)
    \/ \E k \in Inbox : ResponseDecrypted(k)
    \/ \E k \in Inbox : ResponseErrorDecrypted(k)

\* Registrations through the three methods: m1 through each of them, m2
\* through onNotification and onBroadcast only; and frames for both methods.
RegistrySide ==
    \/ \E h \in Handlers : OnRequest("m1", h)
    \/ \E h \in Handlers : OnNotification("m1", h)
    \/ \E h \in Handlers : OnBroadcast("m1", h)
    \/ OnNotification("m2", "h1")
    \/ OnBroadcast("m2", "h2")
    \/ Receive(InFrame("Request", 1, "m2", "", "p1"))
    \/ Receive(InFrame("Notification", 0, "m1", "", "p1"))
    \/ \E k \in Inbox : RequestDecrypted(k)
    \/ \E k \in Inbox : NotificationDecrypted(k)
    \/ \E k \in Inbox : HandlerReturned(k)
    \/ \E k \in Inbox : ReplyResume(k)
    \/ \E k \in Inbox : ResponseEncrypted(k)

\* The server's container: services resolved and peers made.
ContainerSide ==
    \/ \E s \in Services : ContainerGet(s)
    \/ \E info \in PeerInfos : PeerFactoryCall(info)

\* The path mapping of the editor binding.
PathSide ==
    \/ MapUri
    \/ MapBack
    \/ \E path \in UriPaths : MapRemotePath(path)

\* The text documents of the editor binding.
Inserted == {<<>>} \cup {<<c>> : c \in Characters}

BindingSide ==
    \/ RegisterTextDocument
    \/ \E index \in 0..MaxText, deleted \in 0..1, inserted \in Inserted :
          RemoteTextEvent(index, deleted, inserted)
    \/ ApplyEdit
    \/ EditResolved
    \/ ThrottleTimer

Next ==
    Lifecycle \/ RequestSide \/ RequestFaults \/ DispatchSide \/ DispatchFaults
    \/ SendSide \/ CacheSide \/ TeardownSide \/ ErrorSide \/ WriteSide
    \/ PendingSide \/ ForeignSide \/ RegistrySide \/ ContainerSide
    \/ PathSide \/ BindingSide

\* The whole connection.
Spec == Init /\ [][Next]_vars

\* A connection that sends requests and receives the replies.
NextRequests == Lifecycle \/ RequestSide
SpecRequests == Init /\ [][NextRequests]_vars

\* The same, where encryptions and decryptions may fail.
NextRequestFaults == Lifecycle \/ RequestSide \/ RequestFaults
SpecRequestFaults == Init /\ [][NextRequestFaults]_vars

\* A connection that serves inbound frames.
NextDispatch == Lifecycle \/ DispatchSide
SpecDispatch == Init /\ [][NextDispatch]_vars

\* A connection that only sends, within the timeout of its requests and
\* before it is disposed.
NextSends == Ready \/ SendSide
SpecSends == Init /\ [][NextSends]_vars

\* The same, where decryptions may fail.
NextDispatchFaults == Lifecycle \/ DispatchSide \/ DispatchFaults
SpecDispatchFaults == Init /\ [][NextDispatchFaults]_vars

\* A connection that is subscribed to, torn down and torn down again.
NextTeardown == Lifecycle \/ TeardownSide
SpecTeardown == Init /\ [][NextTeardown]_vars

\* A connection whose peer set changes while it sends and receives.
NextCaches == Ready \/ CacheSide
SpecCaches == Init /\ [][NextCaches]_vars

\* A connection that sends and answers, within the timeout of its requests
\* and before it is disposed.
NextWrites == Ready \/ WriteSide
SpecWrites == Init /\ [][NextWrites]_vars

\* A connection that sends requests, some before ready(); every continuation
\* whose promise has settled runs, and every timer that was started fires.
NextPending == Ready \/ PendingSide
SpecPending == Init /\ [][NextPending]_vars
FairPending ==
    /\ \A c \in Calls : WF_vars(SendRequestResume(c))
    /\ \A c \in Calls : WF_vars(SendEncrypted(c) \/ SendEncryptFailed(c))
    /\ \A c \in Calls : WF_vars(TimerFires(c))
FairSpecPending == SpecPending /\ FairPending

\* A connection whose requests are answered by several peers, within the
\* timeout of its requests and before it is disposed.
NextForeign == Ready \/ ForeignSide
SpecForeign == Init /\ [][NextForeign]_vars

\* A connection whose handlers are registered through all three methods.
NextRegistry == Ready \/ RegistrySide
SpecRegistry == Init /\ [][NextRegistry]_vars

\* The container of a server.
NextContainer == ContainerSide
SpecContainer == Init /\ [][NextContainer]_vars

\* The path mapping, for every workspace and every URI within the bounds.
NextPaths == PathSide
SpecPaths == InitPaths /\ [][NextPaths]_vars

\* The text documents of a host or a guest, for every document text and
\* Yjs text within the bounds.
NextBinding == BindingSide
SpecBinding == InitBinding /\ [][NextBinding]_vars

\* A connection that receives Error messages.
NextErrors == Lifecycle \/ ErrorSide
SpecErrors == Init /\ [][NextErrors]_vars

\* The same, every started step of which completes: the event loop runs each
\* continuation whose promise has settled.
FairSends ==
    /\ \A c \in Calls : WF_vars(SendRequestResume(c))
    /\ \A c \in Calls : WF_vars(SendNotificationResume(c))
    /\ \A c \in Calls : WF_vars(SendBroadcastResume(c))
    /\ \A c \in Calls : WF_vars(SendEncrypted(c) \/ SendEncryptFailed(c))
FairSpecSends == SpecSends /\ FairSends

\* ------------------------------------------------------------------ claims
Rejected(reason) == [st |-> "rejected", val |-> reason]
Resolved(v) == [st |-> "resolved", val |-> v]
DoneReplies(kind) ==
    {k \in DOMAIN inbound : inbound[k].kind = kind /\ inbound[k].pc = "done"}

\* C1: a sendRequest future that is resolved holds the content of a Response
\* that carried the id the call allocated, never the content of a Response
\* with another id; and a decrypted Response whose id was in the request map
\* when it arrived has settled the request with that id.
C1_Correlation ==
    /\ \A c \in Calls : Future(c).st = "resolved" =>
          /\ \E k \in DoneReplies("Response") :
                /\ inbound[k].id = sends[c].id
                /\ inbound[k].content = Future(c).val
          /\ \A k \in DoneReplies("Response") :
                inbound[k].id # sends[c].id => inbound[k].content # Future(c).val
    /\ \A k \in DoneReplies("Response"), c \in Calls :
          (inbound[k].inMap /\ inbound[k].outcome = "ok" /\ sends[c].id = inbound[k].id)
              => deferred[c].st # "pending"

\* Two requests, answered in the reverse order, each resolved with its own
\* content.
C1_Witness ==
    /\ Len(inbound) = 2
    /\ inbound[1].kind = "Response" /\ inbound[2].kind = "Response"
    /\ \E c1, c2 \in Calls :
          /\ sends[c1].id = 1 /\ sends[c2].id = 2
          /\ inbound[1].id = 2 /\ inbound[2].id = 1
          /\ Future(c1) = Resolved(ContentOf(1))
          /\ Future(c2) = Resolved(ContentOf(2))
          /\ processed = <<2, 1>>

\* C2: a step that runs dispose() rejects every request pending at that
\* moment with a Disconnected error.
C2_DisposeRejectsPending ==
    [][disposeCalls' # disposeCalls =>
          \A c \in Calls : deferred[c].st = "pending" =>
              deferred'[c] = Rejected("Disconnected")]_vars

\* C3: the ids sendRequest allocates start at 1 and strictly increase in
\* allocation order, so they are pairwise distinct.
C3_IdsIncrease ==
    /\ Len(allocated) > 0 => allocated[1] = 1
    /\ \A i, j \in DOMAIN allocated : i < j => allocated[i] < allocated[j]
    /\ \A b, c \in Calls :
          (b # c /\ sends[b].id > 0 /\ sends[c].id > 0) => sends[b].id # sends[c].id

\* Two callers that both waited on the barrier have each taken an id.
C3_Witness ==
    \E b, c \in Calls :
        /\ b # c
        /\ sends[b].kind = "request" /\ sends[b].early /\ sends[b].id > 0
        /\ sends[c].kind = "request" /\ sends[c].early /\ sends[c].id > 0

\* C5: a request whose timer fired while it was pending stays rejected with
\* the timeout error and has no entry in the request map; a reply with its id
\* that arrives afterwards finds no entry.
C5_Timeout ==
    /\ \A c \in timedOut :
          /\ deferred[c] = Rejected("Request timed out")
          /\ sends[c].id \notin DOMAIN requestMap
          /\ c \notin timers
    /\ \A k \in DOMAIN inbound :
          inbound[k].late => inbound[k].request = NoCall /\ ~inbound[k].inMap

\* A Response for a timed-out request arrived after the timeout and has been
\* handled.
C5_Witness ==
    \E k \in DoneReplies("Response"), c \in timedOut :
        /\ inbound[k].late
        /\ inbound[k].id = sends[c].id

\* The step in which the decrypt of reply k of the given kind ends well.
ReplyStep(k, kind) ==
    /\ inbound[k].kind = kind
    /\ inbound[k].pc = "decrypt"
    /\ inbound'[k].pc = "done"
    /\ inbound'[k].outcome = "ok"

\* C9: when a ResponseError whose id was that of a stored request on arrival
\* decrypts while that request is pending, the request is rejected with the
\* remote message and no other request changes.
C9_ResponseErrorRejects ==
    [][\A k \in DOMAIN inbound, c \in Calls :
          (/\ ReplyStep(k, "ResponseError")
           /\ inbound[k].inMap
           /\ sends[c].id = inbound[k].id
           /\ deferred[c].st = "pending")
          => /\ deferred'[c] = Rejected(inbound[k].content)
             /\ \A b \in Calls \ {c} : deferred'[b] = deferred[b]]_vars

\* A request rejected with the remote message next to one still pending.
C9_Witness ==
    \E k \in DoneReplies("ResponseError"), c, b \in Calls :
        /\ inbound[k].inMap
        /\ sends[c].id = inbound[k].id
        /\ deferred[c] = Rejected(MessageOf(sends[c].id))
        /\ deferred[b].st = "pending"

\* C10: a Response or ResponseError whose id was not in the request map when
\* it arrived is dropped: neither its arrival nor the end of its decrypt
\* settles a future, changes the request map or the timers, invokes a handler
\* or writes a frame.
C10_UnknownReplyDropped ==
    [][\A k \in DOMAIN inbound' :
          (/\ IsReply(inbound'[k].kind)
           /\ ~inbound'[k].inMap
           /\ \/ k \notin DOMAIN inbound
              \/ inbound[k].pc = "decrypt" /\ inbound'[k].pc = "done")
          => /\ deferred' = deferred
             /\ requestMap' = requestMap
             /\ timers' = timers
             /\ wire' = wire
             /\ processed' = processed
             /\ inbound'[k].handler = NoHandler]_vars

\* A reply arrived before the request with its id existed, the request was
\* then sent, the reply was dropped and the request is still pending.
C10_Witness ==
    \E k \in DoneReplies("Response"), c \in Calls :
        /\ ~inbound[k].inMap
        /\ sends[c].id = inbound[k].id
        /\ deferred[c].st = "pending"

\* C4: frames of one sender are dispatched in the order of their arrival: if
\* frame A arrives before frame B, A's handler is invoked (or A's request
\* settled) before B's.
C4_ArrivalOrder ==
    \A i, j \in DOMAIN processed :
        (i < j /\ inbound[processed[i]].origin = inbound[processed[j]].origin)
            => processed[i] < processed[j]

SendKinds == {"Request", "Notification", "Broadcast"}
Written(c) == sends[c].pc = "written"
SkippedBroadcast(c) == sends[c].kind = "broadcast" /\ sends[c].pc = "skipped"
EncryptFailed(c) == sends[c].pc = "failed"
NoSendBeforeReady ==
    \A i \in DOMAIN wire : wire[i].kind \in SendKinds => wire[i].atReady

\* C6 as stated: nothing is written before ready(), and a send issued before
\* ready() that has run to its end has been written (a broadcast: unless the
\* peer set was empty).
C6_EarlySendsWritten ==
    /\ NoSendBeforeReady
    /\ \A c \in Calls :
          (sends[c].early /\ sends[c].pc \in {"written", "skipped", "failed"})
              => Written(c) \/ SkippedBroadcast(c)

\* C6, amended: no Request, Notification or Broadcast is written before
\* ready(); a broadcast goes on to its encryption only with a non-empty peer
\* set; and once ready() is called every send issued before it is written,
\* unless its encryption fails or it is a broadcast to an empty peer set.
C6_Barrier ==
    /\ []NoSendBeforeReady
    /\ [][\A c \in Calls :
            (sends[c].kind = "broadcast" /\ sends[c].pc = "awaitReady"
             /\ sends'[c].pc # "awaitReady")
            => (sends'[c].pc = "encrypting" <=> peerCount > 0)]_vars
    /\ \A c \in Calls :
          (sends[c].early /\ ready)
              ~> (Written(c) \/ SkippedBroadcast(c) \/ EncryptFailed(c))

\* A send issued before ready() has been written.
C6_Witness ==
    \E c \in Calls : sends[c].early /\ Written(c) /\ Len(wire) > 0

ReplyKinds == {"Response", "ResponseError"}

\* C7: no Response and no ResponseError is written before ready().
C7_NoReplyBeforeReady ==
    \A i \in DOMAIN wire : wire[i].kind \in ReplyKinds => wire[i].atReady

\* The inbound requests that had a handler and whose dispatch has ended.
Served ==
    {k \in DOMAIN inbound :
        /\ inbound[k].kind = "Request"
        /\ inbound[k].handler # NoHandler
        /\ inbound[k].pc = "done"}

RepliesTo(k) == {i \in DOMAIN wire : wire[i].re = k}

\* Exactly one reply to request k was written, and it is this one.
ReplyIs(k, kind, content) ==
    \E i \in RepliesTo(k) :
        /\ RepliesTo(k) = {i}
        /\ wire[i].kind = kind
        /\ wire[i].id = inbound[k].id
        /\ wire[i].to = inbound[k].origin
        /\ wire[i].content = content

\* C8 as stated: every served request got exactly one reply, a Response with
\* the result when the handler returned, a ResponseError with the error when
\* it threw.
C8_ExactlyOneReply ==
    \A k \in Served :
        /\ inbound[k].outcome = "returned"
              => ReplyIs(k, "Response", ResultOf(inbound[k].handler))
        /\ inbound[k].outcome = "threw"
              => ReplyIs(k, "ResponseError", "handler error")

\* C8, amended: no request gets more than one reply; a served request whose
\* reply encrypted got exactly one, as stated; when encrypting the Response
\* failed it got a ResponseError with the encryption error instead, and when
\* encrypting the ResponseError failed it got none.
C8_OneReplyUnlessEncryptFails ==
    /\ \A k \in DOMAIN inbound : Cardinality(RepliesTo(k)) <= 1
    /\ \A k \in Served :
          /\ (inbound[k].faults = {} /\ inbound[k].outcome = "returned")
                => ReplyIs(k, "Response", ResultOf(inbound[k].handler))
          /\ (inbound[k].faults = {} /\ inbound[k].outcome = "threw")
                => ReplyIs(k, "ResponseError", "handler error")
          /\ inbound[k].faults = {"Response"}
                => /\ inbound[k].outcome = "returned"
                   /\ ReplyIs(k, "ResponseError", "encrypt error")
          /\ "ResponseError" \in inbound[k].faults => RepliesTo(k) = {}

\* One request answered with a Response and one with a ResponseError, both
\* on a ready connection.
C8_Witness ==
    \E k, l \in Served :
        /\ inbound[k].outcome = "returned" /\ inbound[k].reply = "Response"
        /\ inbound[l].outcome = "threw" /\ inbound[l].reply = "ResponseError"
        /\ inbound[k].faults = {} /\ inbound[l].faults = {}
        /\ ready

\* The inbound requests whose decrypt has ended and that found no handler.
Unhandled ==
    {k \in DOMAIN inbound :
        /\ inbound[k].kind = "Request"
        /\ inbound[k].pc # "decrypt"
        /\ inbound[k].outcome # "fail"
        /\ inbound[k].handler = NoHandler}

\* C11: an inbound Request whose method has no registered handler is dropped
\* when its decrypt ends: its dispatch is over, no handler runs for it and
\* neither a Response nor a ResponseError answering it is ever written.
C11_NoHandlerNoReply ==
    \A k \in Unhandled :
        /\ inbound[k].pc = "done"
        /\ inbound[k].outcome = "dropped"
        /\ inbound[k].reply = ""
        /\ RepliesTo(k) = {}
        /\ \A i \in DOMAIN processed : processed[i] # k

\* A request for m1 was dropped on a ready, live connection that serves m2,
\* and a request for m2 was answered.
C11_Witness ==
    \E k \in Unhandled, l \in Served :
        /\ inbound[k].method = "m1"
        /\ inbound[l].method = "m2"
        /\ RepliesTo(l) # {}
        /\ messageHandlers["m1"] = NoHandler
        /\ ready /\ ~Disposed

\* A cache holds at most maxCacheSize entries more than there are known keys.
CacheBound(cache) == Cardinality(cache) <= peerCount + maxCacheSize

\* C12: at every moment each of the two key caches holds at most
\* knownPeerCount + 50 entries.
C12_CacheBound ==
    /\ CacheBound(encryptionKeyCache)
    /\ CacheBound(decryptionKeyCache)

\* The sendBroadcast calls that have passed the barrier.
Broadcasts ==
    {c \in Calls : sends[c].kind = "broadcast"
                   /\ sends[c].pc \notin {"idle", "awaitReady"}}

WrittenKind(kind) == {i \in DOMAIN wire : wire[i].kind = kind}

\* C13: a sendBroadcast that found no known public key ends at once, without
\* encrypting, writing or failing; every sendBroadcast that wrote had at least
\* one recipient key; and the Broadcast frames on the transport are exactly
\* those of the calls that wrote.
C13_EmptyBroadcastSkipped ==
    /\ \A c \in Broadcasts :
          /\ sends[c].keys = {} => SkippedBroadcast(c)
          /\ Written(c) => sends[c].keys # {}
    /\ Cardinality(WrittenKind("Broadcast"))
          = Cardinality({c \in Broadcasts : Written(c)})

\* One broadcast was skipped for want of peers and another one, made while a
\* peer was known, was written.
C13_Witness ==
    \E c, b \in Broadcasts :
        /\ SkippedBroadcast(c) /\ sends[c].keys = {}
        /\ Written(b) /\ sends[b].keys # {}
        /\ Cardinality(WrittenKind("Broadcast")) = 1

\* How often subscriber s was handed event ev.
Deliveries(ev, s) ==
    Cardinality({i \in DOMAIN log : log[i].ev = ev /\ log[i].to = s})

\* The members of a list of subscribers.
Members(subs) == {subs[i] : i \in DOMAIN subs}

\* C14: no subscriber is handed onDisconnect twice; the first dispose()
\* hands it to every subscriber once and leaves no listener on onDisconnect
\* and onError and no handler; a later dispose(), direct or through a
\* transport disconnect or error, hands onDisconnect to nobody and leaves the
\* listeners, the handler registry, the barrier and the requests as they are.
C14_DisposeIdempotent ==
    /\ [](\A s \in Subscribers : Deliveries("onDisconnect", s) <= 1)
    /\ [][(disposeCalls = 0 /\ disposeCalls' = 1) =>
            /\ \A s \in Members(listeners["onDisconnect"]) :
                  Deliveries("onDisconnect", s)' = 1
            /\ listeners'["onDisconnect"] = <<>>
            /\ listeners'["onError"] = <<>>
            /\ messageHandlers' = [m \in Methods |-> NoHandler]]_vars
    /\ [][(disposeCalls >= 1 /\ disposeCalls' > disposeCalls) =>
            /\ \A s \in Subscribers :
                  Deliveries("onDisconnect", s)' = Deliveries("onDisconnect", s)
            /\ listeners' = listeners
            /\ messageHandlers' = [m \in Methods |-> NoHandler]
            /\ UNCHANGED <<ready, peerCount, reqVars, cacheVars>>]_vars

\* Two subscribers of onDisconnect have each been notified once by a
\* connection that was disposed twice.
C14_Witness ==
    /\ disposeCalls = 2
    /\ \A s \in Subscribers : Deliveries("onDisconnect", s) = 1

\* C15: a connection that received bytes that do not decode is torn down: it
\* is disposed, its transport is disposed and onDisconnect has been fired.
C15_MalformedTearsDown ==
    \A k \in DOMAIN inbound :
        inbound[k].kind = "Malformed" =>
            /\ Disposed
            /\ \E i \in DOMAIN log : log[i].ev = "transport.dispose"

\* The step in which the decrypt of frame k, of one of the kinds, fails.
DecryptFailStep(k, kinds) ==
    /\ inbound[k].kind \in kinds
    /\ inbound[k].pc = "decrypt"
    /\ inbound'[k].pc = "done"
    /\ inbound'[k].outcome = "fail"

\* C16: when the decrypt of a Response or ResponseError fails, the pending
\* request whose entry the frame found on arrival is rejected with the crypto
\* error, no request with another id changes, and the connection is not
\* disposed: its handlers, request map, timers and transport are untouched.
C16_ReplyDecryptFailure ==
    [][\A k \in DOMAIN inbound :
          DecryptFailStep(k, ReplyKinds) =>
              /\ \A c \in Calls :
                    /\ (inbound[k].inMap /\ sends[c].id = inbound[k].id
                        /\ deferred[c].st = "pending")
                          => deferred'[c] = Rejected("crypto error")
                    /\ sends[c].id # inbound[k].id => deferred'[c] = deferred[c]
              /\ UNCHANGED <<disposeCalls, messageHandlers, requestMap, timers,
                             wire, emitVars>>]_vars

\* The reply to request 1 failed to decrypt and rejected it; the connection
\* lives on and the reply to request 2, handled afterwards, resolved it.
C16_Witness ==
    /\ ~Disposed
    /\ processed = <<1, 2>>
    /\ inbound[1].outcome = "fail" /\ inbound[1].inMap
    /\ inbound[2].kind = "Response" /\ inbound[2].outcome = "ok"
    /\ \E c, b \in Calls :
          /\ sends[c].id = inbound[1].id
          /\ Future(c) = Rejected("crypto error")
          /\ sends[b].id = inbound[2].id
          /\ Future(b) = Resolved(ContentOf(sends[b].id))

DispatchKinds == {"Request", "Notification", "Broadcast", "Error"}

\* C17: when the decrypt of a Request, Notification, Broadcast or Error
\* fails, that step invokes no handler, fires no event, writes nothing and
\* leaves the request map, the requests, the handler registry and the
\* disposal state as they are; and the frame is dropped for good: its
\* dispatch is over and no reply to it is ever written.
C17_DecryptFailureDropped ==
    /\ [][\A k \in DOMAIN inbound :
            DecryptFailStep(k, DispatchKinds) =>
                /\ inbound'[k].handler = NoHandler
                /\ inbound'[k].calls = 0
                /\ UNCHANGED <<disposeCalls, messageHandlers, reqVars, wire,
                               processed, emitVars>>]_vars
    /\ [](\A k \in DOMAIN inbound :
            (inbound[k].kind \in DispatchKinds /\ inbound[k].outcome = "fail") =>
                /\ inbound[k].pc = "done"
                /\ inbound[k].calls = 0
                /\ RepliesTo(k) = {})

\* A Request for a served method failed to decrypt and was dropped, and a
\* Request that arrived after it was answered on the same live connection.
C17_Witness ==
    /\ ~Disposed
    /\ Len(inbound) = 2
    /\ inbound[1].kind = "Request" /\ inbound[1].outcome = "fail"
    /\ messageHandlers[inbound[1].method] # NoHandler
    /\ inbound[2].kind = "Request" /\ inbound[2].reply = "Response"
    /\ RepliesTo(2) # {}
    /\ listeners["onError"] # <<>>

\* The inbound frames for which a handler has been invoked.
Invoked == {k \in DOMAIN inbound : inbound[k].calls > 0}

\* C18: the registry holds, for every method, the handler registered last
\* (none after the registry was cleared), so a registration replaces the
\* one before it; the step that dispatches a frame invokes the handler
\* registered last for its method, and no frame invokes a handler twice.
C18_LastHandlerOnly ==
    /\ [](messageHandlers = registered)
    /\ [](\A k \in DOMAIN inbound : inbound[k].calls <= 1)
    /\ [][\A k \in DOMAIN inbound :
            inbound'[k].calls > inbound[k].calls =>
                /\ inbound'[k].handler = registered[inbound[k].method]
                /\ inbound'[k].calls = 1]_vars

\* Two frames for m1: the first was handled by h1, then h2 was registered
\* for m1 and the second was handled by h2, each once.
C18_Witness ==
    /\ Invoked = {1, 2}
    /\ processed = <<1, 2>>
    /\ inbound[1].method = "m1" /\ inbound[2].method = "m1"
    /\ inbound[1].handler = "h1" /\ inbound[2].handler = "h2"
    /\ messageHandlers["m1"] = "h2"

\* C19: no frame is handed to the transport after dispose().
C19_NoWriteAfterDispose ==
    \A i \in DOMAIN wire : ~wire[i].atDisposed

\* C20 as stated: a request handler is invoked only on a ready connection.
C20_HandlerAfterReady ==
    \A k \in Invoked : inbound[k].kind = "Request" => ready

\* C20, amended: the handler of a Request runs whether or not the barrier is
\* released; while the connection is not ready a request whose handler has
\* returned waits at the barrier with no reply written, and every Response
\* is written on a ready connection.
C20_ResponseAfterReady ==
    /\ \A k \in Invoked :
          (inbound[k].kind = "Request" /\ inbound[k].outcome = "returned"
           /\ ~ready)
              => inbound[k].pc = "awaitReady" /\ RepliesTo(k) = {}
    /\ \A i \in DOMAIN wire : wire[i].kind = "Response" => wire[i].atReady

\* A handler was invoked and has returned before ready(); its Response waits.
C20_Witness ==
    \E k \in Invoked :
        /\ ~ready
        /\ inbound[k].kind = "Request"
        /\ inbound[k].pc = "awaitReady"
        /\ inbound[k].result = ResultOf(inbound[k].handler)

NotificationKinds == {"Notification", "Broadcast"}

\* C21: a Notification or Broadcast never has a reply written for it and
\* its dispatch ends with the decrypt; its handler, when one is registered,
\* has been invoked once whether it returned or threw, and none is invoked
\* when none is registered; the step that dispatches it writes nothing and
\* does not dispose the connection; and only replies to Requests are ever
\* written by the dispatch (no Error message).
C21_NotificationNoWrite ==
    /\ [](\A k \in DOMAIN inbound :
            inbound[k].kind \in NotificationKinds =>
                /\ RepliesTo(k) = {}
                /\ inbound[k].pc \in {"decrypt", "done"}
                /\ inbound[k].outcome \in {"ok", "threw"}
                      => inbound[k].calls = 1 /\ inbound[k].handler # NoHandler
                /\ inbound[k].outcome = "dropped" => inbound[k].calls = 0)
    /\ [](\A i \in DOMAIN wire :
            /\ wire[i].kind \in ReplyKinds
            /\ inbound[wire[i].re].kind = "Request")
    /\ [][\A k \in DOMAIN inbound :
            (/\ inbound[k].kind \in NotificationKinds
             /\ inbound[k].pc = "decrypt"
             /\ inbound'[k].pc # "decrypt")
            => /\ wire' = wire
               /\ disposeCalls' = disposeCalls
               /\ (registered[inbound[k].method] # NoHandler
                   /\ inbound'[k].outcome # "fail")
                     => /\ inbound'[k].calls = 1
                        /\ inbound'[k].handler = registered[inbound[k].method]]_vars

\* A Notification whose handler threw and a Broadcast whose handler returned
\* on a live connection that has written nothing.
C21_Witness ==
    /\ ~Disposed /\ ready /\ wire = <<>>
    /\ \E k, l \in DOMAIN inbound :
          /\ inbound[k].kind = "Notification" /\ inbound[k].outcome = "threw"
          /\ inbound[l].kind = "Broadcast" /\ inbound[l].outcome = "ok"
          /\ inbound[k].calls = 1 /\ inbound[l].calls = 1

\* The step that ends the decrypt of the Error message k.
ErrorStep(k) ==
    /\ inbound[k].kind = "Error"
    /\ inbound[k].pc = "decrypt"
    /\ inbound'[k].pc # "decrypt"

\* C22: the step that dispatches a decrypted Error message hands its text
\* once to every listener of onError, in registration order, and to nobody
\* else; it settles no request, leaves the request map and the timers as
\* they are, invokes no handler, writes nothing and does not dispose the
\* connection; and no Error message ever invokes a handler.
C22_ErrorEmittedOnce ==
    /\ [][\A k \in DOMAIN inbound :
            ErrorStep(k) =>
                /\ Len(log') = Len(log) + Len(listeners["onError"])
                /\ \A i \in DOMAIN listeners["onError"] :
                      log'[Len(log) + i] =
                          [ev |-> "onError", to |-> listeners["onError"][i],
                           arg |-> inbound[k].content]
                /\ \A i \in DOMAIN log : log'[i] = log[i]
                /\ inbound'[k].calls = 0 /\ inbound'[k].handler = NoHandler
                /\ UNCHANGED <<reqVars, connVars, wire, listeners>>]_vars
    /\ [](\A k \in DOMAIN inbound :
            inbound[k].kind = "Error" =>
                inbound[k].calls = 0 /\ RepliesTo(k) = {})

C22_Witness ==
    /\ ~Disposed
    /\ deferred[1] = Unsettled /\ 1 \in DOMAIN requestMap
    /\ messageHandlers["m1"] # NoHandler
    /\ Len(inbound) = 2
    /\ inbound[1].outcome = "ok" /\ inbound[2].outcome = "ok"
    /\ inbound[1].content # inbound[2].content
    /\ \A s \in Subscribers :
          /\ Deliveries("onError", s) = 2
          /\ \A i \in 1..2 :
                Cardinality({j \in DOMAIN log :
                    log[j] = [ev |-> "onError", to |-> s,
                              arg |-> inbound[i].content]}) = 1

\* A step in which handleMessage starts, and with it cleanupCaches runs.
CleanupStep == Len(inbound') > Len(inbound)

\* A cache is over the bound of cleanupCaches.
Overflowing(cache) == Cardinality(cache) > peerCount + maxCacheSize

\* C23: when cleanupCaches runs, a cache that holds more than
\* knownPeerCount + 50 entries becomes empty and a cache that holds at most
\* that many stays as it is, each cache by its own size alone; no other step
\* removes an entry from a cache.
C23_CleanupDropsWhole ==
    /\ [][CleanupStep =>
            /\ Overflowing(encryptionKeyCache) => encryptionKeyCache' = {}
            /\ ~Overflowing(encryptionKeyCache) =>
                    encryptionKeyCache' = encryptionKeyCache
            /\ Overflowing(decryptionKeyCache) => decryptionKeyCache' = {}
            /\ ~Overflowing(decryptionKeyCache) =>
                    decryptionKeyCache' = decryptionKeyCache]_vars
    /\ [][~CleanupStep =>
            /\ encryptionKeyCache \subseteq encryptionKeyCache'
            /\ decryptionKeyCache \subseteq decryptionKeyCache']_vars

\* A broadcast to more than 50 recipients filled the encryption cache, the
\* room emptied, and the frame received next emptied the encryption cache
\* while the decryption cache kept its entry.
C23_Witness ==
    /\ peerCount = 0
    /\ \E c \in Calls : Written(c) /\ Cardinality(sends[c].keys) > maxCacheSize
    /\ \A c \in Calls : sends[c].pc \in {"written", "skipped"}
    /\ encryptionKeyCache = {}
    /\ decryptionKeyCache # {}
    /\ Len(inbound) = 2 /\ inbound[2].pc = "decrypt"

\* C24: a step that changes the known peer set leaves both key caches empty.
C24_PeerChangeDropsCaches ==
    [][peerCount' # peerCount =>
          encryptionKeyCache' = {} /\ decryptionKeyCache' = {}]_vars

\* What a step appended to the log.
Appended == SubSeq(log', Len(log) + 1, Len(log'))

\* The deliveries of event ev in a part of the log, in order.
DeliveriesIn(part, ev) == SelectSeq(part, LAMBDA e : e.ev = ev)

\* The place of a log entry in a teardown.
Rank(e) ==
    CASE e.ev \in {"transport.onError", "transport.onDisconnect"} -> 0
      [] e.ev = "onConnectionError" -> 1
      [] e.ev = "onDisconnect" -> 2
      [] e.ev = "handlers.clear" -> 3
      [] e.ev = "transport.dispose" -> 4
      [] OTHER -> 5

\* C25: every teardown step delivers and acts in the order onConnectionError,
\* onDisconnect, registry cleared, transport disposed, the last two exactly
\* once; onDisconnect goes to its listeners in registration order; a teardown
\* started by a transport error delivers the error's message to every
\* listener of onConnectionError, in registration order, and a teardown
\* started by a transport disconnect or by the owner delivers no
\* onConnectionError.
C25_TeardownOrder ==
    [][disposeCalls' > disposeCalls =>
        /\ \A i \in DOMAIN log : log'[i] = log[i]
        /\ \A i, j \in DOMAIN Appended :
              i < j => Rank(Appended[i]) <= Rank(Appended[j])
        /\ Len(DeliveriesIn(Appended, "handlers.clear")) = 1
        /\ Len(DeliveriesIn(Appended, "transport.dispose")) = 1
        /\ Appended[Len(Appended)].ev = "transport.dispose"
        /\ DeliveriesIn(Appended, "onDisconnect")
              = [i \in DOMAIN listeners["onDisconnect"] |->
                    [ev |-> "onDisconnect", to |-> listeners["onDisconnect"][i],
                     arg |-> ""]]
        /\ DeliveriesIn(Appended, "onConnectionError")
              = IF Appended[1].ev = "transport.onError"
                THEN [i \in DOMAIN listeners["onConnectionError"] |->
                        [ev |-> "onConnectionError",
                         to |-> listeners["onConnectionError"][i],
                         arg |-> Appended[1].arg]]
                ELSE <<>>
        /\ messageHandlers' = [m \in Methods |-> NoHandler]]_vars

\* A transport error tore the connection down and reached two listeners of
\* onConnectionError and two of onDisconnect; a transport disconnect followed.
C25_Witness ==
    /\ disposeCalls = 2
    /\ log[1] = Cause("transport.onError", "socket error")
    /\ \E i \in DOMAIN log : log[i].ev = "transport.onDisconnect"
    /\ \A s \in Subscribers :
          /\ Deliveries("onConnectionError", s) = 1
          /\ Deliveries("onDisconnect", s) = 1

\* C26: the symmetric key of the connection is the one generated at
\* construction, no step changes it, and every frame handed to the transport
\* was encrypted with it.
C26_SymKeyFixed ==
    /\ [](symKey = GenerateSymKey)
    /\ [][symKey' = symKey]_vars
    /\ [](\A i \in DOMAIN wire : wire[i].key = symKey)

\* Two sends of different kinds, a Response and a ResponseError are on the
\* transport.
C26_Witness ==
    /\ Len(wire) = 4
    /\ \E a, b \in Calls :
          Written(a) /\ Written(b) /\ sends[a].kind # sends[b].kind
    /\ WrittenKind("Response") # {}
    /\ WrittenKind("ResponseError") # {}

Settled(d) == d.st \in {"resolved", "rejected"}

\* C27: once the Deferred of a request is settled no step changes it, and
\* once the future the caller holds is settled no step changes it: a reply
\* or a timeout that comes after the first settlement is without effect.
C27_SettledOnce ==
    /\ [][\A c \in Calls :
            Settled(deferred[c]) => deferred'[c] = deferred[c]]_vars
    /\ [][\A c \in Calls :
            Settled(Future(c)) => Future(c)' = Future(c)]_vars

\* Request 1 was resolved by its Response; a ResponseError with the same id
\* was handled afterwards and the timer of the request has fired: the caller
\* still holds the content of the Response.
C27_Witness ==
    \E c \in Calls :
        /\ sends[c].id = 1 /\ c \notin timers
        /\ Future(c) = Resolved(ContentOf(1))
        /\ processed = <<1, 2>>
        /\ inbound[1].kind = "Response" /\ inbound[1].id = 1
        /\ inbound[2].kind = "ResponseError" /\ inbound[2].id = 1
        /\ inbound[2].inMap /\ inbound[2].outcome = "ok"

\* The ids of the requests whose timer is running.
TimedIds == {sends[c].id : c \in timers}

\* C28: the ids in the request map are exactly the ids of the requests whose
\* timer has not fired, each entry leading to its request; an entry leaves
\* the map only in the step in which its timer fires; the step that ends the
\* decrypt of a reply and the step that runs dispose() leave the map and the
\* timers as they are.
C28_EntryLivesUntilTimeout ==
    /\ [](DOMAIN requestMap = TimedIds)
    /\ [](\A i \in DOMAIN requestMap :
            requestMap[i] \in timers /\ sends[requestMap[i]].id = i)
    /\ [][\A i \in DOMAIN requestMap :
            i \notin DOMAIN requestMap' =>
                requestMap[i] \in timers /\ requestMap[i] \notin timers']_vars
    /\ [][(\E k \in DOMAIN inbound :
                inbound[k].pc = "decrypt" /\ inbound'[k].pc = "done")
            => requestMap' = requestMap /\ timers' = timers]_vars
    /\ [][disposeCalls' # disposeCalls =>
            requestMap' = requestMap /\ timers' = timers]_vars

\* A request was resolved by its Response and the connection disposed
\* afterwards; its entry is still in the map and its timer still running.
C28_Witness ==
    \E c \in Calls :
        /\ Disposed
        /\ Future(c) = Resolved(ContentOf(sends[c].id))
        /\ sends[c].id \in DOMAIN requestMap
        /\ c \in timers
        /\ \E b \in timedOut : sends[b].id \notin DOMAIN requestMap

\* The sendRequest calls that have been made.
Requests == {c \in Calls : sends[c].kind = "request"}

\* How the future of request c came to its outcome.
ByReply(c) ==
    Future(c) \in {Resolved(ContentOf(sends[c].id)),
                   Rejected(MessageOf(sends[c].id))}
ByTimeout(c) == Future(c) = Rejected("Request timed out")
ByEncryptFailure(c) == EncryptFailed(c) /\ Future(c) = Rejected("encrypt error")

\* Before ready() no id has been taken, the request map is empty, no timer
\* runs and no future is settled.
NothingBeforeReady ==
    ~ready =>
        /\ requestId = 1 /\ allocated = <<>>
        /\ requestMap = <<>> /\ timers = {}
        /\ \A c \in Calls : sends[c].id = 0 /\ ~Settled(Future(c))

Outcome(m) ==
    IF m.kind = "Response" THEN Resolved(m.content) ELSE Rejected(m.content)

\* C30: when a Response or ResponseError whose id was in the request map on
\* arrival decrypts while the request with that id is pending, that request
\* is settled with the content of the reply, whoever the reply came from,
\* and no other request changes.
C30_CorrelationByIdOnly ==
    [][\A k \in DOMAIN inbound, c \in Calls :
          (/\ inbound[k].kind \in ReplyKinds
           /\ inbound[k].pc = "decrypt"
           /\ inbound'[k].pc = "done" /\ inbound'[k].outcome = "ok"
           /\ inbound[k].inMap
           /\ sends[c].id = inbound[k].id
           /\ deferred[c].st = "pending")
          => /\ deferred'[c] = Outcome(inbound[k])
             /\ \A b \in Calls \ {c} : deferred'[b] = deferred[b]]_vars

\* Both requests were sent to p1; a Response from p2 resolved one and a
\* ResponseError from p2 rejected the other.
C30_Witness ==
    \E k, l \in DOMAIN inbound, c, b \in Calls :
        /\ inbound[k].origin = "p2" /\ inbound[l].origin = "p2"
        /\ sends[c].keys = {KeyOf("p1")} /\ sends[b].keys = {KeyOf("p1")}
        /\ inbound[k].kind = "Response" /\ inbound[k].id = sends[c].id
        /\ inbound[l].kind = "ResponseError" /\ inbound[l].id = sends[b].id
        /\ Future(c) = Resolved("forged " \o ContentOf(sends[c].id))
        /\ Future(b) = Rejected("forged " \o MessageOf(sends[b].id))

\* C31: a registration through onRequest, onNotification or onBroadcast
\* makes its handler the one of the method, whatever was registered before
\* and through whichever method, and changes no other method; a Request for
\* m2, which is only ever registered through onNotification and onBroadcast,
\* invokes the handler registered last for m2, and when that handler has
\* returned and the dispatch has ended the Request has been answered with one
\* Response that carries the handler's result.
C31_OneRegistry ==
    /\ [](messageHandlers = registered)
    /\ [][\A m \in Methods, h \in Handlers :
            (OnRequest(m, h) \/ OnNotification(m, h) \/ OnBroadcast(m, h))
                => messageHandlers' = [messageHandlers EXCEPT ![m] = h]]_vars
    /\ [][\A k \in DOMAIN inbound :
            (/\ inbound[k].kind = "Request" /\ inbound[k].method = "m2"
             /\ inbound[k].pc = "decrypt" /\ inbound'[k].pc # "decrypt"
             /\ registered["m2"] # NoHandler)
            => /\ inbound'[k].pc = "handler"
               /\ inbound'[k].calls = 1
               /\ inbound'[k].handler = registered["m2"]]_vars
    /\ [](\A k \in Served :
            (inbound[k].method = "m2" /\ inbound[k].outcome = "returned")
                => ReplyIs(k, "Response", ResultOf(inbound[k].handler)))

\* A Request for m2, registered through onBroadcast, was answered with the
\* result of that handler; a Notification for m1 invoked h1, which a later
\* registration replaced by h2.
C31_Witness ==
    \E k \in Served, l \in Invoked :
        /\ inbound[k].method = "m2" /\ inbound[k].handler = "h2"
        /\ ReplyIs(k, "Response", ResultOf("h2"))
        /\ inbound[l].kind = "Notification" /\ inbound[l].handler = "h1"
        /\ messageHandlers["m1"] = "h2"

\* The sendRequest calls whose encryption failed.
FailedRequests == {c \in Requests : EncryptFailed(c)}

\* C35: the step in which the encryption of a sendRequest fails writes
\* nothing and leaves the request map, the timers, the Deferreds and the id
\* counter as they are; the call is then rejected with the encryption error
\* and no Request with its id is ever on the transport; its entry is in the
\* request map exactly as long as its timer runs and leaves the map only in
\* the step in which the timer fires, which eventually happens; and no other
\* call is given its id.
C35_FailedRequestLingers ==
    /\ [][\A c \in Requests :
            (sends[c].pc = "encrypting" /\ sends'[c].pc = "failed")
                => UNCHANGED <<requestMap, timers, deferred, requestId, wire>>]_vars
    /\ [](\A c \in FailedRequests :
            /\ Future(c) = Rejected("encrypt error")
            /\ \A i \in DOMAIN wire : wire[i].id # sends[c].id
            /\ sends[c].id \in DOMAIN requestMap <=> c \in timers
            /\ requestId > sends[c].id
            /\ \A b \in Requests \ {c} : sends[b].id # sends[c].id)
    /\ [][\A c \in FailedRequests :
            (sends[c].id \in DOMAIN requestMap
             /\ sends[c].id \notin DOMAIN requestMap')
                => c \in timers /\ c \notin timers']_vars
    /\ \A c \in Calls :
          (c \in FailedRequests) ~> (sends[c].id \notin DOMAIN requestMap)

\* The encryption of request 1 failed: the call is rejected, its entry is in
\* the map and its timer runs, and the next request was written with id 2.
C35_Witness ==
    \E c \in FailedRequests, b \in Requests :
        /\ sends[c].id = 1 /\ 1 \in DOMAIN requestMap /\ c \in timers
        /\ Future(c) = Rejected("encrypt error")
        /\ Written(b) /\ sends[b].id = 2
        /\ Len(wire) = 1 /\ wire[1].id = 2

\* C32: every PeerImpl the factory returned holds the PeerInfo that was
\* passed to the call that made it; no two calls returned the same object
\* and no PeerImpl is one of the singletons; and every service bound in
\* singleton scope has resolved to one instance only, for the container and
\* for every peer.
C32_PeerScoping ==
    /\ \A n \in DOMAIN peerImpls : peerImpls[n].peerInfo = peerImpls[n].arg
    /\ \A n, m \in DOMAIN peerImpls :
          n # m => peerImpls[n].instance # peerImpls[m].instance
    /\ \A n \in DOMAIN peerImpls, s \in Services :
          /\ peerImpls[n].instance # singletonCache[s]
          /\ peerImpls[n].deps[s] = singletonCache[s]
    /\ \A r, q \in resolutions : r[1] = q[1] => r[2] = q[2]

\* Two peers made for different PeerInfos, after a service had been resolved
\* from the container itself.
C32_Witness ==
    /\ Len(peerImpls) = 2
    /\ peerImpls[1].peerInfo = "peer info a"
    /\ peerImpls[2].peerInfo = "peer info b"
    /\ peerImpls[1].instance > 1
    /\ peerImpls[1].deps = peerImpls[2].deps
    /\ Cardinality(resolutions) = Cardinality(Services)

\* The URI lies under a workspace folder.
UnderFolder(path) ==
    \E i \in DOMAIN workspaceFolders :
        StartsWithRoot(path, workspaceFolders[i].path)

\* C36: a URI under a workspace folder is mapped to a protocol path that
\* maps back to a URI with the same path; a URI under no workspace folder
\* has no protocol path; and a path whose first segment names no workspace
\* folder has no URI.
C36_PathRoundTrip ==
    /\ mapped = "uri" /\ UnderFolder(uri) => resourceUri = uri
    /\ mapped \in {"path", "uri"} /\ ~UnderFolder(uri)
          => protocolPath = undefined
    /\ (/\ mapped \in {"uri", "remote"}
        /\ protocolPath # undefined
        /\ \A i \in DOMAIN workspaceFolders :
              workspaceFolders[i].name # protocolPath[1])
          => resourceUri = undefined

\* C34: registerTextDocument on a host replaces the Yjs text by the text of
\* the document, so the two are equal and no edit of the document is asked
\* for; on a guest it leaves the Yjs text as it is and, when the two differ,
\* asks for one edit that replaces the whole document by the Yjs text, and
\* the document has that text once the edit is applied.
Registration == ~observing /\ observing'

RegisterEdits == {i \in DOMAIN edits : edits[i].origin = "register"}

FromYjs == {"observer", "resync"}

C33_EchoSuppressed ==
    /\ \A i \in DOMAIN applied :
          applied[i].origin \in FromYjs =>
             applied[i].marked /\ applied[i].after = applied[i].before
    /\ (\A j \in DOMAIN edits : edits[j].origin \notin FromYjs) => updates = {}

====
